---------------------------- MODULE Spec2Model ----------------------------
(***************************************************************************)
(* A model of hpc-access-cli: the state-sync pipeline (gather, build the   *)
(* target state, compare, apply) and the storage-usage-sync flow.          *)
(*                                                                         *)
(* Representation.                                                         *)
(*  - A Python str is a sequence of chunks (TLA+ strings); concatenation   *)
(*    is \o, startswith/endswith are prefix/suffix tests on the sequence.  *)
(*    Chunk boundaries are placed where the code cuts or joins strings.    *)
(*  - Optional[T] is None == <<>> or Some(v) == <<v>>.                     *)
(*  - A dict is a function; a dict whose iteration order the code relies   *)
(*    on (the registry collections) is a sequence of records.              *)
(*  - A byte count is a 5-digit base-1024 numeral <<TiB,GiB,MiB,KiB,B>>,   *)
(*    exact for every quantity of the program (2^40 does not fit a TLC     *)
(*    integer); multiplying by 1024 shifts the digits.                     *)
(***************************************************************************)
EXTENDS Integers, Sequences, FiniteSets, TLC

VARIABLES
    ldap_users,       \* directory service: DN |-> account entry (attributes)
    ldap_groups,      \* directory service: DN |-> group entry
    fs,               \* filesystem: path |-> directory (stat data and xattrs)
    registry,         \* hpc-access: [hpc_users, hpc_groups, hpc_projects]
    cmd,              \* the CLI command running: "none", "state-sync", "storage-usage-sync"
    pc,               \* position inside the running command
    err,              \* the exception that ended the command, or "none"
    settings,         \* Settings of the run: dry_run and the three op lists
    src_state,        \* SystemState gathered from LDAP and the filesystem
    next_gid,         \* TargetStateBuilder.next_gid
    hpcaccess_state,  \* in-memory HpcaccessState of the run
    dst_state,        \* SystemState built by TargetStateBuilder
    prev_dst,         \* desired state of the previous Builder run (history)
    builds,           \* number of Builder runs so far in this command
    operations,       \* OperationsContainer of the comparison
    prev_ops,         \* operations of the run before, when it was a completed
                      \* state-sync that was no dry run (history)
    idx,              \* number of operations of the current list already applied
    log               \* the run's log entries and mutating calls, in order

vars == <<ldap_users, ldap_groups, fs, registry, cmd, pc, err, settings, src_state,
          next_gid, hpcaccess_state, dst_state, prev_dst, builds, operations, prev_ops,
          idx, log>>

-----------------------------------------------------------------------------
(* Python values *)

None == <<>>
Some(v) == <<v>>
IsSome(o) == o # None
Get(o) == o[1]

StartsWith(s, p) == Len(s) >= Len(p) /\ SubSeq(s, 1, Len(p)) = p
EndsWith(s, p) == Len(s) >= Len(p) /\ SubSeq(s, Len(s) - Len(p) + 1, Len(s)) = p
Contains(s, c) == \E i \in 1..Len(s) : s[i] = c
Range(s) == {s[i] : i \in 1..Len(s)}

\* d[k] = v on a dict
Put(d, k, v) == [x \in (DOMAIN d) \cup {k} |-> IF x = k THEN v ELSE d[x]]
EmptyDict == [x \in {} |-> None]

\* The elements of a set, in one fixed order.
RECURSIVE SetToSeq(_)
SetToSeq(S) ==
    IF S = {} THEN <<>>
    ELSE LET x == CHOOSE y \in S : TRUE IN <<x>> \o SetToSeq(S \ {x})

SetMax(S) == CHOOSE x \in S : \A y \in S : y <= x

\* the components of a path, the text between its slashes
RECURSIVE Components(_)
Components(path) ==
    IF ~Contains(path, "/") THEN <<path>>
    ELSE LET i == CHOOSE j \in 1..Len(path) : path[j] = "/" /\ \A k \in 1..(j - 1) : path[k] # "/"
         IN  <<SubSeq(path, 1, i - 1)>> \o Components(SubSeq(path, i + 1, Len(path)))

-----------------------------------------------------------------------------
(* constants.py *)

POSIX_AG_PREFIX == <<"hpc-ag-">>
POSIX_PROJECT_PREFIX == <<"hpc-prj-">>
BASE_PATH_TIER1 == <<"/", "data", "/", "cephfs-1">>
BASE_PATH_TIER2 == <<"/", "data", "/", "cephfs-2">>
BASE_DN_GROUPS == <<"ou=Teams,ou=Groups,dc=hpc,dc=bihealth,dc=org">>
BASE_DN_PROJECTS == <<"ou=Projects,ou=Groups,dc=hpc,dc=bihealth,dc=org">>
BASE_DN_CHARITE == <<"ou=Charite,ou=Users,dc=hpc,dc=bihealth,dc=org">>
BASE_DN_MDC == <<"ou=MDC,ou=Users,dc=hpc,dc=bihealth,dc=org">>
\* 1024 * 1024 * 1024 bytes
QUOTA_HOME_BYTES == <<0, 1, 0, 0, 0>>
HPC_ALUMNIS_GROUP == <<"hpc-alumnis">>
HPC_ALUMNIS_GID == 1030001
HPC_USERS_GID == 1005269
ENTITY_USERS == <<"users">>
ENTITY_GROUPS == <<"groups">>
ENTITY_PROJECTS == <<"projects">>
ENTITIES == <<ENTITY_USERS, ENTITY_GROUPS, ENTITY_PROJECTS>>

(* models.py *)
LOGIN_SHELL_DISABLED == <<"/usr/sbin/", "nologin">>
LOGIN_SHELL_BASH == <<"/usr/bin/bash">>
CREATE == "CREATE"
UPDATE == "UPDATE"
DISABLE == "DISABLE"
StateOperation == {CREATE, UPDATE, DISABLE}

\* int(x) of a small non-negative number, as a byte count
BytesOfInt(n) == <<0, 0, 0, n \div 1024, n % 1024>>
\* x * 1024 on a byte count
Mul1024(b) == <<b[1] * 1024 + b[2], b[3], b[4], b[5], 0>>
ZeroBytes == <<0, 0, 0, 0, 0>>

Gecos(full_name, office_location, office_phone, home_phone, other) ==
    [full_name |-> full_name, office_location |-> office_location,
     office_phone |-> office_phone, home_phone |-> home_phone, other |-> other]


-----------------------------------------------------------------------------
(* states.py: helpers *)

strip_prefix(name, prefix) ==
    IF prefix # <<>>
    THEN IF StartsWith(name, prefix)
         THEN SubSeq(name, Len(prefix) + 1, Len(name)) ELSE name
    ELSE IF StartsWith(name, POSIX_AG_PREFIX)
         THEN SubSeq(name, Len(POSIX_AG_PREFIX) + 1, Len(name))
         ELSE IF StartsWith(name, POSIX_PROJECT_PREFIX)
              THEN SubSeq(name, Len(POSIX_PROJECT_PREFIX) + 1, Len(name))
              ELSE name

user_dn(user) ==
    IF EndsWith(user.username, <<"_m">>)
    THEN <<"cn=">> \o user.full_name \o <<",">> \o BASE_DN_MDC
    ELSE <<"cn=">> \o user.full_name \o <<",">> \o BASE_DN_CHARITE

\* dict lookups of the registry collections, keyed by uuid
HasUuid(coll, uuid) == \E i \in 1..Len(coll) : coll[i].uuid = uuid
ByUuid(coll, uuid) == coll[CHOOSE i \in 1..Len(coll) : coll[i].uuid = uuid]

\* "not x.gid": None or 0
GidMissing(gid) == gid = None \/ Get(gid) = 0


-----------------------------------------------------------------------------
(* states.py: TargetStateBuilder *)

\* A builder run in progress: the snapshot being read (and written: gids are
\* assigned into its records), the counter, and the exception raised, if any.
Builder(state, gid) == [ok |-> TRUE, err |-> "none", state |-> state, next_gid |-> gid]
Raise(b, e) == [b EXCEPT !.ok = FALSE, !.err = e]

SeedGids(system_state) ==
    {system_state.ldap_groups[k].gid_number : k \in DOMAIN system_state.ldap_groups}
    \cup {Get(system_state.ldap_users[k].gid_number) :
            k \in {u \in DOMAIN system_state.ldap_users :
                     ~GidMissing(system_state.ldap_users[u].gid_number)}}

\* the seed without the step past the maximum
get_next_gid_at_max(system_state) ==
    IF SeedGids(system_state) # {} THEN SetMax(SeedGids(system_state)) ELSE 1000

get_next_gid(system_state) ==
    IF SeedGids(system_state) # {} THEN SetMax(SeedGids(system_state)) + 1 ELSE 1000

LdapGroup(cn, dn, gid_number, description, owner_dn, delegate_dns, member_uids) ==
    [cn |-> cn, dn |-> dn, gid_number |-> gid_number, description |-> description,
     owner_dn |-> owner_dn, delegate_dns |-> delegate_dns, member_uids |-> member_uids]

\* every record numbered from the counter
AssignedGid_renumbered(gid, counter) == Some(counter)
\* the gid a record gets: its own, or the counter value
AssignedGid(gid, counter) == IF GidMissing(gid) THEN Some(counter) ELSE gid
CounterAfter(gid, counter) == IF GidMissing(gid) THEN counter + 1 ELSE counter

\* one iteration of "for group in state.hpc_groups.values()"
build_ldap_group(b, result, i) ==
    LET group == b.state.hpc_groups[i]
        gid == AssignedGid(group.gid, b.next_gid)
        b1 == [b EXCEPT !.state.hpc_groups[i].gid = gid,
                        !.next_gid = CounterAfter(group.gid, b.next_gid)]
        group_name == POSIX_AG_PREFIX \o group.name
        group_dn == <<"cn=">> \o POSIX_AG_PREFIX \o group.name \o <<",">> \o BASE_DN_GROUPS
    IN  IF ~HasUuid(b.state.hpc_users, group.owner)
        THEN [b |-> Raise(b1, "KeyError"), result |-> result]
        ELSE IF IsSome(group.delegate) /\ ~HasUuid(b.state.hpc_users, Get(group.delegate))
        THEN [b |-> Raise(b1, "KeyError"), result |-> result]
        ELSE [b |-> b1,
              result |-> Put(result, group_name,
                  LdapGroup(group_name, group_dn, Get(gid), group.description,
                      Some(user_dn(ByUuid(b.state.hpc_users, group.owner))),
                      IF IsSome(group.delegate)
                      THEN <<user_dn(ByUuid(b.state.hpc_users, Get(group.delegate)))>>
                      ELSE <<>>,
                      <<>>))]

\* one iteration of "for project in state.hpc_projects.values()"
build_ldap_project(b, result, i) ==
    LET project == b.state.hpc_projects[i]
        gid == AssignedGid(project.gid, b.next_gid)
        b1 == [b EXCEPT !.state.hpc_projects[i].gid = gid,
                        !.next_gid = CounterAfter(project.gid, b.next_gid)]
        project_name == POSIX_PROJECT_PREFIX \o project.name
        group_dn == <<"cn=">> \o POSIX_PROJECT_PREFIX \o project.name
                        \o <<",">> \o BASE_DN_PROJECTS
    IN  IF IsSome(project.group) /\ ~HasUuid(b.state.hpc_groups, Get(project.group))
        THEN [b |-> Raise(b1, "KeyError"), result |-> result]
        ELSE IF IsSome(project.group)
                /\ ~HasUuid(b.state.hpc_users,
                            ByUuid(b.state.hpc_groups, Get(project.group)).owner)
        THEN [b |-> Raise(b1, "KeyError"), result |-> result]
        ELSE IF IsSome(project.delegate)
                /\ ~HasUuid(b.state.hpc_users, Get(project.delegate))
        THEN [b |-> Raise(b1, "KeyError"), result |-> result]
        ELSE [b |-> b1,
              result |-> Put(result, project_name,
                  LdapGroup(project_name, group_dn, Get(gid), project.description,
                      IF IsSome(project.group)
                      THEN Some(user_dn(ByUuid(b.state.hpc_users,
                               ByUuid(b.state.hpc_groups, Get(project.group)).owner)))
                      ELSE None,
                      IF IsSome(project.delegate)
                      THEN <<user_dn(ByUuid(b.state.hpc_users, Get(project.delegate)))>>
                      ELSE <<>>,
                      <<>>))]

RECURSIVE build_ldap_groups_loop(_, _)
build_ldap_groups_loop(acc, i) ==
    IF ~acc.b.ok \/ i > Len(acc.b.state.hpc_groups) THEN acc
    ELSE build_ldap_groups_loop(build_ldap_group(acc.b, acc.result, i), i + 1)

RECURSIVE build_ldap_projects_loop(_, _)
build_ldap_projects_loop(acc, i) ==
    IF ~acc.b.ok \/ i > Len(acc.b.state.hpc_projects) THEN acc
    ELSE build_ldap_projects_loop(build_ldap_project(acc.b, acc.result, i), i + 1)

build_ldap_groups(b) ==
    build_ldap_projects_loop(
        build_ldap_groups_loop([b |-> b, result |-> EmptyDict], 1), 1)

LdapUser(cn, dn, uid, mail, sn, given_name, uid_number, gid_number, home_directory, login_shell, gecos, ssh_public_key) ==
    [cn |-> cn, dn |-> dn, uid |-> uid, mail |-> mail, sn |-> sn,
     given_name |-> given_name, uid_number |-> uid_number, gid_number |-> gid_number,
     home_directory |-> home_directory, login_shell |-> login_shell, gecos |-> gecos,
     ssh_public_key |-> ssh_public_key]

\* "hpc_group.gid or HPC_ALUMNIS_GID" of the user's primary group
PrimaryGid(state, user) ==
    IF IsSome(user.primary_group)
    THEN IF GidMissing(ByUuid(state.hpc_groups, Get(user.primary_group)).gid)
         THEN HPC_ALUMNIS_GID
         ELSE Get(ByUuid(state.hpc_groups, Get(user.primary_group)).gid)
    ELSE HPC_ALUMNIS_GID

build_ldap_user(b, result, i) ==
    LET user == b.state.hpc_users[i]
    IN  IF IsSome(user.primary_group) /\ ~HasUuid(b.state.hpc_groups, Get(user.primary_group))
        THEN [b |-> Raise(b, "KeyError"), result |-> result]
        ELSE [b |-> b,
              result |-> Put(result, user.username,
                  LdapUser(user.full_name, user_dn(user), user.username, user.email,
                      user.last_name, user.first_name, user.uid,
                      Some(PrimaryGid(b.state, user)),
                      BASE_PATH_TIER1 \o <<"/", "home", "/", "users", "/">> \o user.username,
                      LOGIN_SHELL_BASH,
                      Some(Gecos(Some(user.full_name), None, user.phone_number, None, None)),
                      <<>>))]

RECURSIVE build_ldap_users_loop(_, _)
build_ldap_users_loop(acc, i) ==
    IF ~acc.b.ok \/ i > Len(acc.b.state.hpc_users) THEN acc
    ELSE build_ldap_users_loop(build_ldap_user(acc.b, acc.result, i), i + 1)

build_ldap_users(b) == build_ldap_users_loop([b |-> b, result |-> EmptyDict], 1)

\* [u.uid for u in ldap_users.values() if ...]: the dict keeps the order in which
\* its keys were first inserted.
RECURSIVE hpc_users_members(_, _, _)
hpc_users_members(state, users, i) ==
    IF i > Len(state.hpc_users) THEN <<>>
    ELSE LET name == state.hpc_users[i].username
             first == \A j \in 1..(i - 1) : state.hpc_users[j].username # name
             u == users[name]
         IN  (IF first /\ u.gid_number # Some(HPC_ALUMNIS_GID)
                       /\ ~Contains(u.login_shell, "nologin")
              THEN <<u.uid>> ELSE <<>>)
             \o hpc_users_members(state, users, i + 1)

\* an hpc-users group that lists every account
hpc_users_group_everyone(state, users) ==
    LdapGroup(<<"hpc-users">>, <<"cn=hpc-users,ou=Groups,dc=hpc,dc=bihealth,dc=org">>,
              HPC_USERS_GID, Some(<<"users allowed to login (active+have group)">>),
              None, <<>>, [i \in 1..Len(state.hpc_users) |-> state.hpc_users[i].username])

hpc_users_group(state, users) ==
    LdapGroup(<<"hpc-users">>, <<"cn=hpc-users,ou=Groups,dc=hpc,dc=bihealth,dc=org">>,
              HPC_USERS_GID, Some(<<"users allowed to login (active+have group)">>),
              None, <<>>, hpc_users_members(state, users, 1))


FsDirectory(path, owner_name, owner_uid, group_name, group_gid, perms, rbytes, rfiles, quota_bytes, quota_files) ==
    [path |-> path, owner_name |-> owner_name, owner_uid |-> owner_uid,
     group_name |-> group_name, group_gid |-> group_gid, perms |-> perms,
     rbytes |-> rbytes, rfiles |-> rfiles, quota_bytes |-> quota_bytes,
     quota_files |-> quota_files]

PERMS_USER_HOME == <<"d", "r", "w", "x", "-", "-", "S", "-", "-", "-">>
PERMS_GROUP_DIR == <<"d", "r", "w", "x", "r", "w", "S", "-", "-", "-">>

\* quota * 1024 * 1024 * 1024 * 1024, then int()
TerabytesToBytes(quota) == Mul1024(Mul1024(Mul1024(Mul1024(BytesOfInt(quota)))))

\* one iteration of "for user in hpcaccess_state.hpc_users.values()"
build_fs_user(b, result, i) ==
    LET user == b.state.hpc_users[i]
        path == BASE_PATH_TIER1 \o <<"/", "home", "/", "users", "/">> \o user.username
    IN  IF IsSome(user.primary_group) /\ ~HasUuid(b.state.hpc_groups, Get(user.primary_group))
        THEN [b |-> Raise(b, "KeyError"), result |-> result]
        ELSE [b |-> b,
              result |-> Put(result, path,
                  FsDirectory(path, user.username, user.uid,
                      IF IsSome(user.primary_group)
                      THEN ByUuid(b.state.hpc_groups, Get(user.primary_group)).name
                      ELSE HPC_ALUMNIS_GROUP,
                      PrimaryGid(b.state, user),
                      PERMS_USER_HOME, None, None, Some(QUOTA_HOME_BYTES), None))]

\* the tier-1 and tier-2 directories of one group or project: entity is "groups"
\* or "projects", folder the last path component, rec the registry record
EntityDirs(result, entity, folder, group_name, owner, rec) ==
    LET rr == Get(rec.resources_requested)
        t1(volume) == BASE_PATH_TIER1 \o <<"/", volume, "/">> \o entity \o <<"/">> \o folder
        t2(variant) == BASE_PATH_TIER2 \o <<"/", variant, "/">> \o entity \o <<"/">> \o folder
        dir(path, quota) ==
            FsDirectory(path, owner.username, owner.uid, group_name, Get(rec.gid),
                        PERMS_GROUP_DIR, None, None, Some(quota), None)
        r1 == Put(result, t1("home"), dir(t1("home"), QUOTA_HOME_BYTES))
        r2 == Put(r1, t1("scratch"), dir(t1("scratch"), TerabytesToBytes(rr.tier1_scratch)))
        r3 == Put(r2, t1("work"), dir(t1("work"), TerabytesToBytes(rr.tier1_work)))
        r4 == IF rr.tier2_unmirrored = 0 THEN r3
              ELSE Put(r3, t2("unmirrored"),
                       dir(t2("unmirrored"), BytesOfInt(rr.tier2_unmirrored)))
        r5 == IF rr.tier2_mirrored = 0 THEN r4
              ELSE Put(r4, t2("mirrored"), dir(t2("mirrored"), BytesOfInt(rr.tier2_mirrored)))
    IN  r5

\* one iteration of "for group in hpcaccess_state.hpc_groups.values()"
build_fs_group(b, result, i) ==
    LET group == b.state.hpc_groups[i]
        group_name == strip_prefix(group.name, POSIX_AG_PREFIX)
    IN  IF GidMissing(group.gid) THEN [b |-> b, result |-> result]
        ELSE IF ~HasUuid(b.state.hpc_users, group.owner)
        THEN [b |-> Raise(b, "KeyError"), result |-> result]
        ELSE IF group.resources_requested = None
        THEN [b |-> Raise(b, "AttributeError"), result |-> result]
        ELSE IF Get(group.resources_requested).tier1_work = 0
                \/ Get(group.resources_requested).tier1_scratch = 0
        THEN [b |-> b, result |-> result]
        ELSE [b |-> b,
              result |-> EntityDirs(result, ENTITY_GROUPS, <<"ag-">> \o group_name,
                                    group_name, ByUuid(b.state.hpc_users, group.owner), group)]

\* one iteration of "for project in hpcaccess_state.hpc_projects.values()"; the
\* name is taken from "group", the variable the loop over the groups left behind
build_fs_project(b, result, i) ==
    LET project == b.state.hpc_projects[i]
        group == b.state.hpc_groups[Len(b.state.hpc_groups)]
        project_name == strip_prefix(group.name, POSIX_PROJECT_PREFIX)
    IN  IF GidMissing(project.gid) \/ project.group = None THEN [b |-> b, result |-> result]
        ELSE IF ~HasUuid(b.state.hpc_groups, Get(project.group))
        THEN [b |-> Raise(b, "KeyError"), result |-> result]
        ELSE IF ~HasUuid(b.state.hpc_users,
                         ByUuid(b.state.hpc_groups, Get(project.group)).owner)
        THEN [b |-> Raise(b, "KeyError"), result |-> result]
        ELSE IF project.resources_requested = None
        THEN [b |-> Raise(b, "AttributeError"), result |-> result]
        ELSE IF Get(project.resources_requested).tier1_work = 0
                \/ Get(project.resources_requested).tier1_scratch = 0
        THEN [b |-> b, result |-> result]
        ELSE [b |-> b,
              result |-> EntityDirs(result, ENTITY_PROJECTS, project_name, project_name,
                            ByUuid(b.state.hpc_users,
                                   ByUuid(b.state.hpc_groups, Get(project.group)).owner),
                            project)]

RECURSIVE build_fs_users_loop(_, _)
build_fs_users_loop(acc, i) ==
    IF ~acc.b.ok \/ i > Len(acc.b.state.hpc_users) THEN acc
    ELSE build_fs_users_loop(build_fs_user(acc.b, acc.result, i), i + 1)

RECURSIVE build_fs_groups_loop(_, _)
build_fs_groups_loop(acc, i) ==
    IF ~acc.b.ok \/ i > Len(acc.b.state.hpc_groups) THEN acc
    ELSE build_fs_groups_loop(build_fs_group(acc.b, acc.result, i), i + 1)

RECURSIVE build_fs_projects_loop(_, _)
build_fs_projects_loop(acc, i) ==
    IF ~acc.b.ok \/ i > Len(acc.b.state.hpc_projects) THEN acc
    ELSE build_fs_projects_loop(build_fs_project(acc.b, acc.result, i), i + 1)

build_fs_directories(b) ==
    build_fs_projects_loop(
        build_fs_groups_loop(
            build_fs_users_loop([b |-> b, result |-> EmptyDict], 1), 1), 1)

SystemState(users, groups, directories) ==
    [ldap_users |-> users, ldap_groups |-> groups, fs_directories |-> directories]
EmptyState == SystemState(EmptyDict, EmptyDict, EmptyDict)

\* TargetStateBuilder._build: groups first, then users, the hpc-users group, the
\* directories.  The result: the builder afterwards and the target state.
build(b) ==
    LET g == build_ldap_groups(b)
        u == build_ldap_users(g.b)
        d == build_fs_directories(u.b)
    IN  IF ~g.b.ok THEN [b |-> g.b, state |-> EmptyState]
        ELSE IF ~u.b.ok THEN [b |-> u.b, state |-> EmptyState]
        ELSE IF ~d.b.ok THEN [b |-> d.b, state |-> EmptyState]
        ELSE [b |-> d.b,
              state |-> SystemState(u.result,
                            Put(g.result, <<"hpc-users">>, hpc_users_group(u.b.state, u.result)),
                            d.result)]


-----------------------------------------------------------------------------
(* states.py: TargetStateComparison *)

\* dict.get(key)
DictGet(d, k) == IF k \in DOMAIN d THEN d[k] ELSE None

Op(operation, entity, diff) == [operation |-> operation, entity |-> entity, diff |-> diff]

\* The iteration order of a Python set is not specified; the model iterates
\* every key set in one fixed order (SetToSeq); ops maps each key to its operation.
OpsOver(ops) == [i \in 1..Cardinality(DOMAIN ops) |-> ops[SetToSeq(DOMAIN ops)[i]]]

\* a diff that lists every field, changed or not
DictDiff_every_field(src_dict, dst_dict, keys) == [k \in keys |-> DictGet(dst_dict, k)]
\* the fields model_dump() gives that differ, with their target values
DictDiff(src_dict, dst_dict, keys) ==
    [k \in {x \in keys : DictGet(src_dict, x) # DictGet(dst_dict, x)} |-> DictGet(dst_dict, k)]

ExtraKeys(src, dst) == (DOMAIN src) \ (DOMAIN dst)
MissingKeys(src, dst) == (DOMAIN dst) \ (DOMAIN src)
CommonKeys(src, dst) == (DOMAIN src) \cap (DOMAIN dst)
\* the comparison without its equality guard
Differs_unguarded(src_entity, dst_entity) == TRUE
\* "if src_dict != dst_dict"
Differs(src_entity, dst_entity) == src_entity # dst_entity
ChangedKeys(src, dst) == {k \in CommonKeys(src, dst) : Differs(src[k], dst[k])}

\* Missing users are looked up in the source state: self.src.ldap_users[username]
compare_ldap_users(src, dst) ==
    IF MissingKeys(src.ldap_users, dst.ldap_users) # {}
    THEN [ok |-> FALSE, err |-> "KeyError", ops |-> <<>>]
    ELSE [ok |-> TRUE, err |-> "none",
          ops |->
            LET disable(k) == Op(DISABLE, src.ldap_users[k], EmptyDict)
                update(k) == Op(UPDATE, src.ldap_users[k],
                                DictDiff(src.ldap_users[k], dst.ldap_users[k],
                                         (DOMAIN src.ldap_users[k])
                                             \cup (DOMAIN dst.ldap_users[k])))
            IN  OpsOver([k \in ExtraKeys(src.ldap_users, dst.ldap_users) |-> disable(k)])
                \o OpsOver([k \in ChangedKeys(src.ldap_users, dst.ldap_users) |-> update(k)])]

compare_ldap_groups(src, dst) ==
    LET disable(k) == Op(DISABLE, src.ldap_groups[k], EmptyDict)
        create(k) == Op(CREATE, dst.ldap_groups[k], EmptyDict)
        update(k) == Op(UPDATE, src.ldap_groups[k],
                        DictDiff(src.ldap_groups[k], dst.ldap_groups[k],
                                 (DOMAIN src.ldap_groups[k]) \cup (DOMAIN dst.ldap_groups[k])))
    IN  OpsOver([k \in ExtraKeys(src.ldap_groups, dst.ldap_groups) |-> disable(k)])
        \o OpsOver([k \in MissingKeys(src.ldap_groups, dst.ldap_groups) |-> create(k)])
        \o OpsOver([k \in ChangedKeys(src.ldap_groups, dst.ldap_groups) |-> update(k)])

FS_DIFF_KEYS == {"owner_uid", "owner_gid", "perms", "quota_bytes", "quota_files"}

compare_fs_directories(src, dst) ==
    LET disable(k) == Op(DISABLE, src.fs_directories[k], EmptyDict)
        create(k) == Op(CREATE, dst.fs_directories[k], EmptyDict)
        update(k) == Op(UPDATE, src.fs_directories[k],
                        DictDiff(src.fs_directories[k], dst.fs_directories[k], FS_DIFF_KEYS))
    IN  OpsOver([k \in ExtraKeys(src.fs_directories, dst.fs_directories) |-> disable(k)])
        \o OpsOver([k \in MissingKeys(src.fs_directories, dst.fs_directories) |-> create(k)])
        \o OpsOver([k \in ChangedKeys(src.fs_directories, dst.fs_directories) |-> update(k)])

OperationsContainer(user_ops, group_ops, fs_ops) ==
    [ldap_user_ops |-> user_ops, ldap_group_ops |-> group_ops, fs_ops |-> fs_ops]
NoOperations == OperationsContainer(<<>>, <<>>, <<>>)

\* TargetStateComparison.run
compare(src, dst) ==
    LET u == compare_ldap_users(src, dst)
    IN  IF ~u.ok THEN [ok |-> FALSE, err |-> u.err, operations |-> NoOperations]
        ELSE [ok |-> TRUE, err |-> "none",
              operations |-> OperationsContainer(u.ops, compare_ldap_groups(src, dst),
                                                 compare_fs_directories(src, dst))]


-----------------------------------------------------------------------------
(* models.py: Gecos.from_string *)

HasComma(s) == Contains(s, ",")
FirstComma(s) == CHOOSE i \in 1..Len(s) : s[i] = "," /\ \A j \in 1..(i - 1) : s[j] # ","

\* str.split(",", maxsplit)
RECURSIVE Split(_, _)
Split(s, maxsplit) ==
    IF maxsplit = 0 \/ ~HasComma(s) THEN <<s>>
    ELSE <<SubSeq(s, 1, FirstComma(s) - 1)>>
         \o Split(SubSeq(s, FirstComma(s) + 1, Len(s)), maxsplit - 1)

Gecos_from_string(gecos) ==
    LET parts == Split(gecos, 4)
        part(i) == IF i <= Len(parts) THEN parts[i] ELSE <<>>
        field(i) == IF part(i) # <<"None">> THEN Some(part(i)) ELSE None
    IN  Gecos(field(1), field(2), field(3), field(4), field(5))

-----------------------------------------------------------------------------
(* ldap.py: reading the directory service.  An entry is a record of its
   attributes; Optional for a single-valued attribute that may be absent. *)

\* one entry of load_users: the LdapUser, or the ValueError of a missing attribute
load_user(dn, e) ==
    IF e.uidNumber = None \/ Get(e.uidNumber) = 0
       \/ e.gidNumber = None \/ Get(e.gidNumber) = 0
       \/ e.cn = None \/ Get(e.cn) = <<>>
       \/ e.uid = None \/ Get(e.uid) = <<>>
       \/ e.homeDirectory = None \/ Get(e.homeDirectory) = <<>>
       \/ e.loginShell = None \/ Get(e.loginShell) = <<>>
    THEN [ok |-> FALSE, user |-> None]
    ELSE [ok |-> TRUE,
          user |-> LdapUser(Get(e.cn), dn, Get(e.uid), e.mail, e.sn, e.givenName,
                            Get(e.uidNumber), e.gidNumber, Get(e.homeDirectory),
                            Get(e.loginShell),
                            IF e.gecos = None \/ Get(e.gecos) = <<>> THEN None
                            ELSE Some(Gecos_from_string(Get(e.gecos))),
                            e.sshPublicKey)]

\* one entry of load_groups
load_group(dn, e) ==
    IF e.cn = None \/ Get(e.cn) = <<>> \/ e.gidNumber = None \/ Get(e.gidNumber) = 0
    THEN [ok |-> FALSE, group |-> None]
    ELSE [ok |-> TRUE,
          group |-> LdapGroup(Get(e.cn), dn, Get(e.gidNumber), e.description, e.ownerDN,
                              e.delegateDNs, e.memberUid)]

\* the entries the filters "(uid=*)" of load_users and "(cn=*)" of load_groups find
SearchUsers(dir) == {dn \in DOMAIN dir : dir[dn].uid # None}
SearchGroups(dir) == {dn \in DOMAIN dir : dir[dn].cn # None}

\* {u.uid: u for u in ldap_users}; the model keeps the uid of the entries unique
UsersByUid(dir) ==
    LET uids == {load_user(dn, dir[dn]).user.uid : dn \in SearchUsers(dir)}
        of(k) == CHOOSE dn \in SearchUsers(dir) : load_user(dn, dir[dn]).user.uid = k
    IN  [k \in uids |-> load_user(of(k), dir[of(k)]).user]

\* {g.cn: g for g in ldap_groups}
GroupsByCn(dir) ==
    LET cns == {load_group(dn, dir[dn]).group.cn : dn \in SearchGroups(dir)}
        of(k) == CHOOSE dn \in SearchGroups(dir) : load_group(dn, dir[dn]).group.cn = k
    IN  [k \in cns |-> load_group(of(k), dir[of(k)]).group]

-----------------------------------------------------------------------------
(* models.py, fs.py: reading the filesystem.  A directory is its stat data
   (uid, gid, mode) and its extended attributes; owner and group names come
   from the name service, which the directory service feeds. *)

ROOT_NAME == <<"root">>

\* pwd.getpwuid / grp.getgrgid: the names known for an id
UserNamesOf(users, uid) ==
    (IF uid = 0 THEN {ROOT_NAME} ELSE {})
    \cup {Get(users[dn].uid) : dn \in {d \in DOMAIN users : users[d].uidNumber = Some(uid)}}
GroupNamesOf(groups, gid) ==
    (IF gid = 0 THEN {ROOT_NAME} ELSE {})
    \cup {Get(groups[dn].cn) : dn \in {d \in DOMAIN groups : groups[d].gidNumber = Some(gid)}}

XATTR_RBYTES == <<"ceph.dir.rbytes">>
XATTR_RFILES == <<"ceph.dir.rfiles">>
XATTR_QUOTA_BYTES == <<"ceph.quota.max_bytes">>
XATTR_QUOTA_FILES == <<"ceph.quota.max_files">>

\* FsDirectory.from_path; ok is FALSE when a name lookup raises KeyError or a
\* usage attribute is missing (ValueError)
from_path(users, groups, path, d) ==
    IF UserNamesOf(users, d.uid) = {} \/ GroupNamesOf(groups, d.gid) = {}
    THEN [ok |-> FALSE, err |-> "KeyError", directory |-> None]
    ELSE IF XATTR_RBYTES \notin DOMAIN d.xattrs \/ XATTR_RFILES \notin DOMAIN d.xattrs
    THEN [ok |-> FALSE, err |-> "ValueError", directory |-> None]
    ELSE [ok |-> TRUE, err |-> "none",
          directory |->
            FsDirectory(path,
                CHOOSE n \in UserNamesOf(users, d.uid) : TRUE, d.uid,
                CHOOSE n \in GroupNamesOf(groups, d.gid) : TRUE, d.gid,
                d.mode,
                Some(d.xattrs[XATTR_RBYTES]), Some(d.xattrs[XATTR_RFILES]),
                IF XATTR_QUOTA_BYTES \in DOMAIN d.xattrs
                THEN Some(d.xattrs[XATTR_QUOTA_BYTES]) ELSE None,
                IF XATTR_QUOTA_FILES \in DOMAIN d.xattrs
                THEN Some(d.xattrs[XATTR_QUOTA_FILES]) ELSE None)]

\* load_directories: glob("*/*") below the five well-known folders
load_directories(dirs) ==
    {p \in DOMAIN dirs :
        LET c == Components(p)
        IN  /\ Len(c) = 6 /\ c[1] = <<>> /\ c[2] = <<"data">>
            /\ \/ c[3] = <<"cephfs-1">> /\ c[4] \in {<<"home">>, <<"work">>, <<"scratch">>}
               \/ c[3] = <<"cephfs-2">> /\ c[4] \in {<<"mirrored">>, <<"unmirrored">>}
            /\ c[5] # <<>> /\ c[6] # <<>>}

\* gather_system_state: the SystemState, or the exception of a bad entry
gather_system_state(users, groups, dirs) ==
    IF \E dn \in SearchUsers(users) : ~load_user(dn, users[dn]).ok
    THEN [ok |-> FALSE, err |-> "ValueError", state |-> EmptyState]
    ELSE IF \E dn \in SearchGroups(groups) : ~load_group(dn, groups[dn]).ok
    THEN [ok |-> FALSE, err |-> "ValueError", state |-> EmptyState]
    ELSE IF \E p \in load_directories(dirs) : ~from_path(users, groups, p, dirs[p]).ok
    THEN [ok |-> FALSE,
          err |-> from_path(users, groups,
                            CHOOSE p \in load_directories(dirs) :
                                ~from_path(users, groups, p, dirs[p]).ok,
                            dirs[CHOOSE p \in load_directories(dirs) :
                                    ~from_path(users, groups, p, dirs[p]).ok]).err,
          state |-> EmptyState]
    ELSE [ok |-> TRUE, err |-> "none",
          state |-> SystemState(UsersByUid(users), GroupsByCn(groups),
                        [p \in load_directories(dirs) |->
                            from_path(users, groups, p, dirs[p]).directory])]


-----------------------------------------------------------------------------
(* fs.py: FsResourceManager, writing the filesystem *)

Without(s, c) == SelectSeq(s, LAMBDA x : x # c)
Replace(s, c, r) == [i \in 1..Len(s) |-> IF s[i] = c THEN r ELSE s[i]]

\* _transform_perms: the three clauses of the symbolic mode.  "set" are the
\* letters after "="; special is "+s", "-s" or "" (no such clause); a clause
\* that lacks its "who=" is not a mode chmod accepts.
transform_perms(perms) ==
    LET user == Without(SubSeq(perms, 2, 4), "-")
        group == Without(SubSeq(perms, 5, 7), "-")
        other == Replace(Without(Without(SubSeq(perms, 8, Len(perms)), "-"), "S"), "s", "x")
    IN  [u |-> IF Contains(user, "S")
               THEN [valid |-> TRUE, set |-> Without(user, "S"), special |-> "+s"]
               ELSE [valid |-> TRUE, set |-> user, special |-> "-s"],
         g |-> IF Contains(group, "S")
               THEN [valid |-> TRUE, set |-> Without(group, "S"), special |-> "+s"]
               ELSE IF Contains(group, "s")
               THEN [valid |-> TRUE, set |-> Replace(group, "s", "x"), special |-> "+s"]
               ELSE [valid |-> FALSE, set |-> group, special |-> ""],
         o |-> [valid |-> TRUE, set |-> other, special |-> "-s"]]

\* the permission string (stat.filemode) of a directory after chmod with the
\* clauses; "who=...s" sets the set-id bit, which the later "who-s" clears
ModeTriple(clause, setid) ==
    LET bit == IF clause.special = "+s" THEN TRUE
               ELSE IF clause.special = "-s" THEN FALSE
               ELSE setid /\ Contains(clause.set, "s")
        x == Contains(clause.set, "x")
    IN  <<IF Contains(clause.set, "r") THEN "r" ELSE "-",
          IF Contains(clause.set, "w") THEN "w" ELSE "-",
          IF bit THEN (IF x THEN "s" ELSE "S") ELSE (IF x THEN "x" ELSE "-")>>

ModeOf(sym) == <<"d">> \o ModeTriple(sym.u, TRUE) \o ModeTriple(sym.g, TRUE)
                       \o ModeTriple([sym.o EXCEPT !.special = ""], FALSE)
ValidMode(sym) == sym.u.valid /\ sym.g.valid /\ sym.o.valid

XATTR_SET_QUOTA_BYTES == <<"ceph-quota.max_bytes">>
XATTR_SET_QUOTA_FILES == <<"ceph-quota.max_files">>

\* getpwnam / getgrnam: the ids known for a name
UidsOf(users, name) ==
    (IF name = ROOT_NAME THEN {0} ELSE {})
    \cup {Get(users[dn].uidNumber) :
            dn \in {d \in DOMAIN users : users[d].uid = Some(name) /\ users[d].uidNumber # None}}
GidsOf(groups, name) ==
    (IF name = ROOT_NAME THEN {0} ELSE {})
    \cup {Get(groups[dn].gidNumber) :
            dn \in {d \in DOMAIN groups : groups[d].cn = Some(name) /\ groups[d].gidNumber # None}}

\* The administrative commands of one operation, in the order the code logs and
\* (unless dry_run) runs them.
Mkdir(path, mode) == [cmd |-> "mkdir", path |-> path, mode |-> mode]
Chown(path, owner, group) == [cmd |-> "chown", path |-> path, owner |-> owner, group |-> group]
ChownId(path, uid) == [cmd |-> "chown-id", path |-> path, uid |-> uid]
Chgrp(path, gid) == [cmd |-> "chgrp", path |-> path, gid |-> gid]
Chmod(path, mode) == [cmd |-> "chmod", path |-> path, mode |-> mode]
SetFattr(path, name, value) == [cmd |-> "setfattr -n", path |-> path, name |-> name, value |-> value]
DelFattr(path, name) == [cmd |-> "setfattr -x", path |-> path, name |-> name]
RaiseValueError == [cmd |-> "raise ValueError"]

fs_op_create(directory) ==
    <<Mkdir(directory.path, transform_perms(directory.perms)),
      Chown(directory.path, directory.owner_name, directory.group_name)>>

fs_op_disable(directory) == <<SetFattr(directory.path, XATTR_SET_QUOTA_FILES, 0)>>

\* the keys of a diff in the order the comparison inserted them
FS_DIFF_ORDER == <<"owner_uid", "owner_gid", "perms", "quota_bytes", "quota_files">>

\* one iteration of "for key, value in diff.items()"
fs_op_update_key(directory, key, value) ==
    IF key = "quota_bytes"
    THEN IF value = None THEN <<DelFattr(directory.path, XATTR_SET_QUOTA_BYTES)>>
         ELSE <<SetFattr(directory.path, XATTR_SET_QUOTA_BYTES, Get(value))>>
    ELSE IF key = "quota_files"
    THEN IF value = None THEN <<DelFattr(directory.path, XATTR_SET_QUOTA_FILES)>>
         ELSE <<SetFattr(directory.path, XATTR_SET_QUOTA_FILES, Get(value))>>
    ELSE IF key \in {"owner_name", "owner_uid"} THEN <<ChownId(directory.path, value)>>
    ELSE IF key \in {"group_name", "group_gid"} THEN <<Chgrp(directory.path, value)>>
    ELSE IF key = "perms" THEN <<Chmod(directory.path, transform_perms(directory.perms))>>
    ELSE <<RaiseValueError>>

RECURSIVE fs_op_update_from(_, _, _)
fs_op_update_from(directory, diff, i) ==
    IF i > Len(FS_DIFF_ORDER) THEN <<>>
    ELSE (IF FS_DIFF_ORDER[i] \in DOMAIN diff
          THEN fs_op_update_key(directory, FS_DIFF_ORDER[i], diff[FS_DIFF_ORDER[i]])
          ELSE <<>>)
         \o fs_op_update_from(directory, diff, i + 1)

fs_op_update(directory, diff) == fs_op_update_from(directory, diff, 1)

\* apply_fs_op: the commands of the operation
apply_fs_op(fs_op) ==
    IF fs_op.operation = CREATE THEN fs_op_create(fs_op.entity)
    ELSE IF fs_op.operation = DISABLE THEN fs_op_disable(fs_op.entity)
    ELSE IF fs_op.operation = UPDATE THEN fs_op_update(fs_op.entity, fs_op.diff)
    ELSE <<>>

NewDirectory(mode) ==
    [uid |-> 0, gid |-> 0, mode |-> mode,
     xattrs |-> [n \in {XATTR_RBYTES, XATTR_RFILES} |->
                    IF n = XATTR_RBYTES THEN ZeroBytes ELSE 0]]

\* What one command does to the filesystem when it succeeds; ok is FALSE when
\* the command itself must fail (unknown name, bad mode, no such path or attribute).
Exec(dirs, users, groups, c) ==
    IF c.cmd = "raise ValueError" THEN [ok |-> FALSE, fs |-> dirs]
    ELSE IF c.cmd = "mkdir"
    THEN IF ~ValidMode(c.mode) THEN [ok |-> FALSE, fs |-> dirs]
         ELSE IF c.path \in DOMAIN dirs THEN [ok |-> TRUE, fs |-> dirs]
         ELSE [ok |-> TRUE, fs |-> Put(dirs, c.path, NewDirectory(ModeOf(c.mode)))]
    ELSE IF c.path \notin DOMAIN dirs THEN [ok |-> FALSE, fs |-> dirs]
    ELSE IF c.cmd = "chown"
    THEN IF UidsOf(users, c.owner) = {} \/ GidsOf(groups, c.group) = {}
         THEN [ok |-> FALSE, fs |-> dirs]
         ELSE [ok |-> TRUE,
               fs |-> [dirs EXCEPT ![c.path].uid = CHOOSE u \in UidsOf(users, c.owner) : TRUE,
                                   ![c.path].gid = CHOOSE g \in GidsOf(groups, c.group) : TRUE]]
    ELSE IF c.cmd = "chown-id" THEN [ok |-> TRUE, fs |-> [dirs EXCEPT ![c.path].uid = c.uid]]
    ELSE IF c.cmd = "chgrp" THEN [ok |-> TRUE, fs |-> [dirs EXCEPT ![c.path].gid = c.gid]]
    ELSE IF c.cmd = "chmod"
    THEN IF ~ValidMode(c.mode) THEN [ok |-> FALSE, fs |-> dirs]
         ELSE [ok |-> TRUE, fs |-> [dirs EXCEPT ![c.path].mode = ModeOf(c.mode)]]
    ELSE IF c.cmd = "setfattr -n"
    THEN [ok |-> TRUE, fs |-> [dirs EXCEPT ![c.path].xattrs = Put(@, c.name, c.value)]]
    ELSE IF c.name \notin DOMAIN dirs[c.path].xattrs THEN [ok |-> FALSE, fs |-> dirs]
    ELSE [ok |-> TRUE,
          fs |-> [dirs EXCEPT ![c.path].xattrs =
                    [n \in (DOMAIN @) \ {c.name} |-> @[n]]]]

\* What a handler leaves in the run's record: the log entry announcing an
\* action (console_err.log) and the mutating call itself.
Log(c) == [kind |-> "log", what |-> c]
Call(c) == [kind |-> "call", what |-> c]

\* The steps of a handler in the order of its code: _fs_op_create logs both
\* commands and then runs both; the other handlers log and run command by
\* command; the raise of _fs_op_update is a step without a log entry.
RECURSIVE LogThenCall(_)
LogThenCall(cmds) ==
    IF cmds = <<>> THEN <<>>
    ELSE (IF Head(cmds) = RaiseValueError THEN <<Call(Head(cmds))>>
          ELSE <<Log(Head(cmds)), Call(Head(cmds))>>)
         \o LogThenCall(Tail(cmds))
Script(fs_op) ==
    IF fs_op.operation = CREATE
    THEN [i \in 1..Len(apply_fs_op(fs_op)) |-> Log(apply_fs_op(fs_op)[i])]
         \o [i \in 1..Len(apply_fs_op(fs_op)) |-> Call(apply_fs_op(fs_op)[i])]
    ELSE LogThenCall(apply_fs_op(fs_op))

\* The steps in turn.  A log step adds its entry.  A call step is check_call
\* "if not dry_run": the command may fail for a reason of the environment, and
\* a failure (CalledProcessError) ends the run.  A raise ends the run, dry or not.
RECURSIVE RunCommands(_, _, _, _, _, _)
RunCommands(dirs, users, groups, steps, dry_run, events) ==
    IF steps = <<>> THEN {[ok |-> TRUE, fs |-> dirs, events |-> events]}
    ELSE IF Head(steps).what = RaiseValueError
    THEN {[ok |-> FALSE, fs |-> dirs, events |-> events]}
    ELSE IF Head(steps).kind = "log"
    THEN RunCommands(dirs, users, groups, Tail(steps), dry_run, Append(events, Head(steps)))
    ELSE IF dry_run
    THEN RunCommands(dirs, users, groups, Tail(steps), dry_run, events)
    ELSE {[ok |-> FALSE, fs |-> dirs, events |-> Append(events, Head(steps))]}
         \cup (IF Exec(dirs, users, groups, Head(steps).what).ok
               THEN RunCommands(Exec(dirs, users, groups, Head(steps).what).fs, users,
                                groups, Tail(steps), dry_run, Append(events, Head(steps)))
               ELSE {})

\* apply_fs_op on the filesystem: under dry_run the commands are logged and not
\* run; only a raise still happens.
FsOutcomes(dirs, users, groups, fs_op, dry_run) ==
    RunCommands(dirs, users, groups, Script(fs_op), dry_run, <<>>)


-----------------------------------------------------------------------------
(* ldap.py: LdapConnection, writing the directory service *)

UserEntry(cn, uid, sn, givenName, uidNumber, gidNumber, homeDirectory, loginShell, mail, gecos, sshPublicKey) ==
    [cn |-> cn, uid |-> uid, sn |-> sn, givenName |-> givenName, uidNumber |-> uidNumber,
     gidNumber |-> gidNumber, homeDirectory |-> homeDirectory, loginShell |-> loginShell,
     mail |-> mail, gecos |-> gecos, sshPublicKey |-> sshPublicKey]

GroupEntry(cn, gidNumber, description, ownerDN, delegateDNs, memberUid) ==
    [cn |-> cn, gidNumber |-> gidNumber, description |-> description, ownerDN |-> ownerDN,
     delegateDNs |-> delegateDNs, memberUid |-> memberUid]

\* "x if x else <absent>" for the optional attributes of connection.add
IfTruthy(o) == IF o # None /\ Get(o) # <<>> THEN o ELSE None

\* the actions of the directory service a handler announces and issues
LdapAdd(dn) == [cmd |-> "create LDAP user", dn |-> dn]
LdapDisable(dn) == [cmd |-> "disable LDAP user", dn |-> dn]
LdapUpdate(dn) == [cmd |-> "update LDAP user", dn |-> dn]

\* the outcomes of a handler together with what it logged and called
Logged(outcomes, events) ==
    {[ok |-> o.ok, dir |-> o.dir, events |-> events] : o \in outcomes}

\* a handler that writes its log entry once the call is back
Announced_late(logged, called, dry_run) ==
    IF dry_run THEN <<Log(logged)>> ELSE <<Call(called), Log(logged)>>

\* the log entry of a handler, followed by its call "if not dry_run"
Announced(logged, called, dry_run) ==
    IF dry_run THEN <<Log(logged)>> ELSE <<Log(logged), Call(called)>>

\* connection.add: the server may reject the entry; the result is not looked at
user_op_create(dir, user, dry_run) ==
    Logged(IF dry_run THEN {[ok |-> TRUE, dir |-> dir]}
           ELSE {[ok |-> TRUE, dir |-> dir]}
                \cup (IF user.dn \in DOMAIN dir THEN {}
                      ELSE {[ok |-> TRUE,
                             dir |-> Put(dir, user.dn,
                                 UserEntry(Some(user.cn), Some(user.uid), IfTruthy(user.sn),
                                           IfTruthy(user.given_name), Some(user.uid_number),
                                           None, Some(user.home_directory), None, None, None,
                                           <<>>))]}),
           Announced(LdapAdd(user.dn), LdapAdd(user.dn), dry_run))

\* the DNs the search "(&(objectClass=posixAccount)(uid=...))" finds
SearchUid(dir, uid) == {dn \in DOMAIN dir : dir[dn].uid = Some(uid)}

\* a commit that does not look at dry_run
Commit_always(dir, dn, entry, dry_run) ==
    {[ok |-> FALSE, dir |-> dir], [ok |-> TRUE, dir |-> [dir EXCEPT ![dn] = entry]]}

\* entry_commit_changes of the writable entry: it may fail, which raises
Commit(dir, dn, entry, dry_run) ==
    IF dry_run THEN {[ok |-> TRUE, dir |-> dir]}
    ELSE {[ok |-> FALSE, dir |-> dir], [ok |-> TRUE, dir |-> [dir EXCEPT ![dn] = entry]]}

\* a disable that deletes the entry
user_op_disable_deleting(dir, user, dry_run) ==
    Logged(IF dry_run THEN {[ok |-> TRUE, dir |-> dir]}
           ELSE {[ok |-> TRUE,
                  dir |-> [dn \in (DOMAIN dir) \ SearchUid(dir, user.uid) |-> dir[dn]]]},
           Announced(LdapDisable(user.dn), LdapDisable(user.dn), dry_run))

\* a disable that also takes the home directory away
user_op_disable_homeless(dir, user, dry_run) ==
    IF SearchUid(dir, user.uid) = {}
    THEN Logged({[ok |-> FALSE, dir |-> dir]}, <<Log(LdapDisable(user.dn))>>)
    ELSE LET dn == CHOOSE d \in SearchUid(dir, user.uid) : TRUE
         IN  Logged(Commit(dir, dn,
                           [dir[dn] EXCEPT !.loginShell = Some(LOGIN_SHELL_DISABLED),
                                           !.homeDirectory = None], dry_run),
                    Announced(LdapDisable(user.dn), LdapDisable(dn), dry_run))

\* the log entry comes first, then the search (which raises when it finds
\* nothing), then the commit of the entry found
user_op_disable(dir, user, dry_run) ==
    IF SearchUid(dir, user.uid) = {}
    THEN Logged({[ok |-> FALSE, dir |-> dir]}, <<Log(LdapDisable(user.dn))>>)
    ELSE LET dn == CHOOSE d \in SearchUid(dir, user.uid) : TRUE
         IN  Logged(Commit(dir, dn,
                           [dir[dn] EXCEPT !.loginShell = Some(LOGIN_SHELL_DISABLED)],
                           dry_run),
                    Announced(LdapDisable(user.dn), LdapDisable(dn), dry_run))

\* humps.camelize of the field names
Camelize(key) ==
    CASE key = "given_name" -> "givenName"
      [] key = "uid_number" -> "uidNumber"
      [] key = "gid_number" -> "gidNumber"
      [] key = "home_directory" -> "homeDirectory"
      [] key = "login_shell" -> "loginShell"
      [] key = "ssh_public_key" -> "sshPublicKey"
      [] OTHER -> key

\* str() of a value inside the dict of a Gecos
Repr(o) == IF o = None THEN <<"None">> ELSE <<"'">> \o Get(o) \o <<"'">>
GecosStr(g) ==
    <<"{'full_name': ">> \o Repr(g.full_name)
    \o <<",", " 'office_location': ">> \o Repr(g.office_location)
    \o <<",", " 'office_phone': ">> \o Repr(g.office_phone)
    \o <<",", " 'home_phone': ">> \o Repr(g.home_phone)
    \o <<",", " 'other': ">> \o Repr(g.other) \o <<"}">>

\* the attribute value that "writable[key] = value or ''" leaves for a field
Written(key, value) ==
    CASE key \in {"cn", "uid", "home_directory", "login_shell"} -> Some(value)
      [] key = "uid_number" -> IF value = 0 THEN None ELSE Some(value)
      [] key \in {"mail", "sn", "given_name"} -> IF value = None THEN Some(<<>>) ELSE value
      [] key = "gid_number" -> value
      [] key = "gecos" -> IF value = None THEN Some(<<>>) ELSE Some(GecosStr(Get(value)))
      [] key = "ssh_public_key" -> value

RECURSIVE WriteAll(_, _, _)
WriteAll(entry, diff, keys) ==
    IF keys = {} THEN entry
    ELSE LET k == CHOOSE x \in keys : TRUE
         IN  WriteAll([entry EXCEPT ![Camelize(k)] = Written(k, diff[k])], diff, keys \ {k})

\* "writable[key] = value or ''": an entry has no attribute "dn" to assign, so
\* that assignment raises; any other may be refused by the directory library
\* (the entry was read with a fixed list of attributes) or go through.  The log
\* entry comes after the assignments and before the commit.
user_op_update(dir, user, diff, dry_run) ==
    IF SearchUid(dir, user.uid) = {} THEN Logged({[ok |-> FALSE, dir |-> dir]}, <<>>)
    ELSE IF "dn" \in DOMAIN diff THEN Logged({[ok |-> FALSE, dir |-> dir]}, <<>>)
    ELSE LET dn == CHOOSE d \in SearchUid(dir, user.uid) : TRUE
         IN  (IF DOMAIN diff = {} THEN {} ELSE Logged({[ok |-> FALSE, dir |-> dir]}, <<>>))
             \cup Logged(Commit(dir, dn, WriteAll(dir[dn], diff, DOMAIN diff), dry_run),
                         Announced(LdapUpdate(user.dn), LdapUpdate(dn), dry_run))

apply_user_op(dir, op, dry_run) ==
    IF op.operation = CREATE THEN user_op_create(dir, op.entity, dry_run)
    ELSE IF op.operation = DISABLE THEN user_op_disable(dir, op.entity, dry_run)
    ELSE IF op.operation = UPDATE THEN user_op_update(dir, op.entity, op.diff, dry_run)
    ELSE Logged({[ok |-> TRUE, dir |-> dir]}, <<>>)

\* "op == StateOperation.X" in apply_group_op: op is the LdapGroupOp itself, which
\* equals no member of the enumeration.
GroupOpEquals(op, kind) == FALSE

\* _group_op_update searches "(&(objectClass=gidNumber)(gidNumber=...))": no entry
\* has that object class, the search is empty and the handler raises, after
\* its log entry.
LdapUpdateGroup(dn) == [cmd |-> "update LDAP group", dn |-> dn]
group_op_update(dir, group, diff, dry_run) ==
    Logged({[ok |-> FALSE, dir |-> dir]}, <<Log(LdapUpdateGroup(group.dn))>>)

apply_group_op(dir, op, dry_run) ==
    IF GroupOpEquals(op, CREATE) THEN Logged({[ok |-> TRUE, dir |-> dir]}, <<>>)
    ELSE IF GroupOpEquals(op, DISABLE) THEN Logged({[ok |-> TRUE, dir |-> dir]}, <<>>)
    ELSE IF GroupOpEquals(op, UPDATE) THEN group_op_update(dir, op.entity, op.diff, dry_run)
    ELSE Logged({[ok |-> TRUE, dir |-> dir]}, <<>>)


-----------------------------------------------------------------------------
(* states.py: fs_validation; main.py: sync_storage_usage; rest.py *)

\* re.search(RE_PATH, path): the first "/cephfs-[12]/" followed by three
\* non-empty components; 0 when there is no match
MatchIndex(comps) ==
    LET hits == {i \in 2..(Len(comps) - 3) :
                    /\ comps[i] \in {<<"cephfs-1">>, <<"cephfs-2">>}
                    /\ comps[i + 1] # <<>> /\ comps[i + 2] # <<>> /\ comps[i + 3] # <<>>}
    IN  IF hits = {} THEN 0 ELSE CHOOSE i \in hits : \A j \in hits : i <= j

CEPHFS_TIER_MAPPING ==
    LET keys == {<<"cephfs-1", "home", "users">>,
                 <<"cephfs-1", "work", "projects">>, <<"cephfs-1", "work", "groups">>,
                 <<"cephfs-1", "scratch", "projects">>, <<"cephfs-1", "scratch", "groups">>,
                 <<"cephfs-2", "unmirrored", "projects">>, <<"cephfs-2", "unmirrored", "groups">>,
                 <<"cephfs-2", "mirrored", "projects">>, <<"cephfs-2", "mirrored", "groups">>}
    IN  [k \in keys |->
            IF k[2] = "home" THEN "tier1_home"
            ELSE IF k[2] = "work" THEN "tier1_work"
            ELSE IF k[2] = "scratch" THEN "tier1_scratch"
            ELSE IF k[2] = "unmirrored" THEN "tier2_unmirrored" ELSE "tier2_mirrored"]

PREFIX_MAPPING(entity) ==
    IF entity = ENTITY_PROJECTS THEN POSIX_PROJECT_PREFIX ELSE POSIX_AG_PREFIX

\* a one-chunk component as the chunk, anything else as a text no key equals
Word(comp) == IF Len(comp) = 1 THEN comp[1] ELSE "?"

fs_validation(directory) ==
    LET comps == Components(directory.path)
        i == MatchIndex(comps)
        entity == comps[i + 2]
        folder_name == comps[i + 3]
        entity_name == IF entity = ENTITY_USERS THEN directory.owner_name
                       ELSE strip_prefix(directory.group_name, PREFIX_MAPPING(entity))
        key == <<Word(comps[i]), Word(comps[i + 1]), Word(entity)>>
        bad == [ok |-> FALSE, entity |-> <<>>, name |-> <<>>, resource |-> ""]
    IN  IF i = 0 THEN bad
        ELSE IF entity \notin Range(ENTITIES) THEN bad
        ELSE IF entity_name # folder_name THEN bad
        ELSE IF key \notin DOMAIN CEPHFS_TIER_MAPPING THEN bad
        ELSE [ok |-> TRUE, entity |-> entity, name |-> folder_name,
              resource |-> CEPHFS_TIER_MAPPING[key]]

\* a division by 2^30 whatever the entity
DivPow1024_gib(bytes, p) ==
    [whole |-> bytes[1] * 1024 + bytes[2], frac |-> <<bytes[3], bytes[4], bytes[5], 0>>]

\* rbytes / 1024**p as a fixed-point number: the whole part and four base-1024
\* digits after the point
DivPow1024(bytes, p) ==
    IF p = 4 THEN [whole |-> bytes[1], frac |-> <<bytes[2], bytes[3], bytes[4], bytes[5]>>]
    ELSE [whole |-> bytes[1] * 1024 + bytes[2], frac |-> <<bytes[3], bytes[4], bytes[5], 0>>]
Float0 == [whole |-> 0, frac |-> <<0, 0, 0, 0>>]

\* the records of an entity class in the snapshot
CollOf(state, entity) ==
    IF entity = ENTITY_USERS THEN state.hpc_users
    ELSE IF entity = ENTITY_GROUPS THEN state.hpc_groups ELSE state.hpc_projects
NameOf(entity, rec) == IF entity = ENTITY_USERS THEN rec.username ELSE rec.name

\* hpcaccess[entity][name] = d: the last record of that name
IndexOf(coll, entity, name) ==
    LET hits == {i \in 1..Len(coll) : NameOf(entity, coll[i]) = name}
    IN  IF hits = {} THEN 0 ELSE CHOOSE i \in hits : \A j \in hits : j <= i

\* "d.resources_used = {}" on every record
ResetUsed(state) ==
    [hpc_users |-> [i \in 1..Len(state.hpc_users) |->
                        [state.hpc_users[i] EXCEPT !.resources_used = EmptyDict]],
     hpc_groups |-> [i \in 1..Len(state.hpc_groups) |->
                        [state.hpc_groups[i] EXCEPT !.resources_used = EmptyDict]],
     hpc_projects |-> [i \in 1..Len(state.hpc_projects) |->
                        [state.hpc_projects[i] EXCEPT !.resources_used = EmptyDict]]]

\* one iteration of "for fs_data in src_state.fs_directories.values()"
fold_directory(state, fs_data) ==
    LET v == fs_validation(fs_data)
        i == IndexOf(CollOf(state, v.entity), v.entity, v.name)
        p == IF v.entity = ENTITY_USERS THEN 3 ELSE 4
        used == DivPow1024(Get(fs_data.rbytes), p)
    IN  IF ~v.ok THEN state
        ELSE IF i = 0 THEN state
        ELSE IF v.entity = ENTITY_USERS
        THEN [state EXCEPT !.hpc_users[i].resources_used = Put(@, v.resource, used)]
        ELSE IF v.entity = ENTITY_GROUPS
        THEN [state EXCEPT !.hpc_groups[i].resources_used = Put(@, v.resource, used)]
        ELSE [state EXCEPT !.hpc_projects[i].resources_used = Put(@, v.resource, used)]

\* a loop that ends at the first directory it has to skip
RECURSIVE fold_all_until_skip(_, _, _)
fold_all_until_skip(state, dirs, paths) ==
    IF paths = <<>> THEN state
    ELSE IF ~fs_validation(dirs[Head(paths)]).ok THEN state
    ELSE IF IndexOf(CollOf(state, fs_validation(dirs[Head(paths)]).entity),
                    fs_validation(dirs[Head(paths)]).entity,
                    fs_validation(dirs[Head(paths)]).name) = 0 THEN state
    ELSE fold_all_until_skip(fold_directory(state, dirs[Head(paths)]), dirs, Tail(paths))

RECURSIVE fold_all(_, _, _)
fold_all(state, dirs, paths) ==
    IF paths = <<>> THEN state
    ELSE fold_all(fold_directory(state, dirs[Head(paths)]), dirs, Tail(paths))

\* the loops of sync_storage_usage over the snapshot and the directories
fold_usage(state, src) ==
    fold_all(ResetUsed(state), src.fs_directories, SetToSeq(DOMAIN src.fs_directories))

\* "x.resources_used or ResourceData().model_dump()": what the PATCH sends
DefaultUsed(entity) ==
    IF entity = ENTITY_USERS THEN [k \in {"tier1_home"} |-> Float0]
    ELSE [k \in {"tier1_work", "tier1_scratch", "tier2_mirrored", "tier2_unmirrored"} |-> Float0]
Patched(entity, rec) ==
    IF rec.resources_used = EmptyDict THEN DefaultUsed(entity) ELSE rec.resources_used

\* deploy_hpcaccess_state with the first n PATCH requests done
Deployed(reg, state, n) ==
    LET nu == Len(state.hpc_users)
        ng == Len(state.hpc_groups)
    IN  [hpc_users |-> [i \in 1..Len(reg.hpc_users) |->
            IF i <= n
            THEN [reg.hpc_users[i] EXCEPT
                    !.resources_used = Patched(ENTITY_USERS, state.hpc_users[i])]
            ELSE reg.hpc_users[i]],
         hpc_groups |-> [i \in 1..Len(reg.hpc_groups) |->
            IF nu + i <= n
            THEN [reg.hpc_groups[i] EXCEPT
                    !.resources_used = Patched(ENTITY_GROUPS, state.hpc_groups[i])]
            ELSE reg.hpc_groups[i]],
         hpc_projects |-> [i \in 1..Len(reg.hpc_projects) |->
            IF nu + ng + i <= n
            THEN [reg.hpc_projects[i] EXCEPT
                    !.resources_used = Patched(ENTITY_PROJECTS, state.hpc_projects[i])]
            ELSE reg.hpc_projects[i]]]
NumRecords(state) == Len(state.hpc_users) + Len(state.hpc_groups) + Len(state.hpc_projects)

-----------------------------------------------------------------------------
(* models.py: the records of the registry; config.py: Settings *)

ResourceData(tier1_work, tier1_scratch, tier2_mirrored, tier2_unmirrored) ==
    [tier1_work |-> tier1_work, tier1_scratch |-> tier1_scratch,
     tier2_mirrored |-> tier2_mirrored, tier2_unmirrored |-> tier2_unmirrored]

HpcUser(uuid, username, full_name, first_name, last_name, email, phone_number, uid, primary_group, resources_used) ==
    [uuid |-> uuid, username |-> username, full_name |-> full_name,
     first_name |-> first_name, last_name |-> last_name, email |-> email,
     phone_number |-> phone_number, uid |-> uid, primary_group |-> primary_group,
     resources_used |-> resources_used]

HpcGroup(uuid, name, owner, delegate, description, gid, resources_requested, resources_used) ==
    [uuid |-> uuid, name |-> name, owner |-> owner, delegate |-> delegate,
     description |-> description, gid |-> gid,
     resources_requested |-> resources_requested, resources_used |-> resources_used]

HpcProject(uuid, name, group, delegate, description, gid, resources_requested, resources_used) ==
    [uuid |-> uuid, name |-> name, group |-> group, delegate |-> delegate,
     description |-> description, gid |-> gid,
     resources_requested |-> resources_requested, resources_used |-> resources_used]

HpcaccessState(users, groups, projects) ==
    [hpc_users |-> users, hpc_groups |-> groups, hpc_projects |-> projects]
EmptyRegistry == HpcaccessState(<<>>, <<>>, <<>>)

\* the lists "x or list(StateOperation)" and the dry_run flag
Settings(dry_run, user_ops, group_ops, fs_ops) ==
    [dry_run |-> dry_run, ldap_user_ops |-> user_ops, ldap_group_ops |-> group_ops,
     fs_ops |-> fs_ops]

-----------------------------------------------------------------------------
(* The universe of the model: two people of the registry (alice, and bob of
   the second institute), an account only the directory service knows (carol),
   the work groups foo and bar and the project prj. *)

HOME_USERS == BASE_PATH_TIER1 \o <<"/", "home", "/", "users", "/">>

AliceUser(primary_group) ==
    HpcUser("u1", <<"alice">>, <<"Alice A">>, Some(<<"Alice">>), Some(<<"A">>),
            Some(<<"alice@example.org">>), None, 2001, primary_group,
            DefaultUsed(ENTITY_USERS))
BobUser ==
    HpcUser("u2", <<"bob", "_m">>, <<"Bob B">>, Some(<<"Bob">>), Some(<<"B">>),
            None, None, 2002, None, DefaultUsed(ENTITY_USERS))

\* requests in TB: both tier-1 volumes and the mirrored tier-2 volume
FullRequest == ResourceData(1, 2, 3, 0)
\* a request without scratch space
NoScratch == ResourceData(1, 0, 0, 0)

FooGroup(gid, rr) ==
    HpcGroup("g1", <<"foo">>, "u1", None, None, gid, rr, DefaultUsed(ENTITY_GROUPS))
BarGroup(gid, rr) ==
    HpcGroup("g2", <<"bar">>, "u1", Some("u2"), Some(<<"AG Bar">>), gid, rr,
             DefaultUsed(ENTITY_GROUPS))
PrjProject(gid, rr) ==
    HpcProject("p1", <<"prj">>, Some("g1"), None, None, gid, rr,
               DefaultUsed(ENTITY_PROJECTS))

\* entries of the directory service
AliceEntry(gid, gecos) ==
    UserEntry(Some(<<"Alice A">>), Some(<<"alice">>), Some(<<"A">>), Some(<<"Alice">>),
              Some(2001), Some(gid), Some(HOME_USERS \o <<"alice">>),
              Some(LOGIN_SHELL_BASH), Some(<<"alice@example.org">>), gecos, <<>>)
BobEntry(gid) ==
    UserEntry(Some(<<"Bob B">>), Some(<<"bob", "_m">>), Some(<<"B">>), Some(<<"Bob">>),
              Some(2002), Some(gid), Some(HOME_USERS \o <<"bob", "_m">>),
              Some(LOGIN_SHELL_BASH), None, None, <<>>)
CarolEntry(gid) ==
    UserEntry(Some(<<"Carol C">>), Some(<<"carol">>), Some(<<"C">>), Some(<<"Carol">>),
              Some(2003), Some(gid), Some(HOME_USERS \o <<"carol">>),
              Some(LOGIN_SHELL_BASH), None, Some(<<"Carol C", ",", "R1", ",", "">>), <<>>)
AliceDn == user_dn(AliceUser(None))
BobDn == user_dn(BobUser)
CarolDn == <<"cn=", "Carol C", ",">> \o BASE_DN_CHARITE
\* the gecos text that reads back as the Gecos the builder makes for alice
AliceGecos == <<"Alice A", ",", "None", ",", "None", ",", "None", ",", "None">>

GroupDn(cn) == <<"cn=">> \o cn \o <<",">> \o BASE_DN_GROUPS
FooEntry(gid) ==
    GroupEntry(Some(POSIX_AG_PREFIX \o <<"foo">>), Some(gid), None, Some(AliceDn), <<>>, <<>>)
BarEntry(gid) ==
    GroupEntry(Some(POSIX_AG_PREFIX \o <<"bar">>), Some(gid), Some(<<"AG Bar">>),
               Some(AliceDn), <<BobDn>>, <<>>)
AlumnisEntry == GroupEntry(Some(HPC_ALUMNIS_GROUP), Some(HPC_ALUMNIS_GID), None, None, <<>>, <<>>)
UsersEntry(members) ==
    GroupEntry(Some(<<"hpc-users">>), Some(HPC_USERS_GID),
               Some(<<"users allowed to login (active+have group)">>), None, <<>>, members)

\* a dict from its items
RECURSIVE Dict(_)
Dict(items) ==
    IF items = <<>> THEN EmptyDict
    ELSE Put(Dict(SubSeq(items, 1, Len(items) - 1)), items[Len(items)][1], items[Len(items)][2])

\* a directory of the filesystem
Dir(uid, gid, mode, rbytes, rfiles, quota) ==
    [uid |-> uid, gid |-> gid, mode |-> mode,
     xattrs |-> IF quota = None
                THEN Dict(<<<<XATTR_RBYTES, rbytes>>, <<XATTR_RFILES, rfiles>>>>)
                ELSE Dict(<<<<XATTR_RBYTES, rbytes>>, <<XATTR_RFILES, rfiles>>,
                            <<XATTR_QUOTA_BYTES, Get(quota)>>>>)]
AliceHome == HOME_USERS \o <<"alice">>
FooWork == BASE_PATH_TIER1 \o <<"/", "work", "/", "groups", "/", "ag-", "foo">>
OldWork == BASE_PATH_TIER1 \o <<"/", "work", "/", "groups", "/", "old">>
\* a directory the loader does not look at
Lost == BASE_PATH_TIER1 \o <<"/", "lost+found">>

System(users, groups, dirs) == [ldap_users |-> users, ldap_groups |-> groups, fs |-> dirs]

UsersDn == <<"cn=hpc-users,ou=Groups,dc=hpc,dc=bihealth,dc=org">>
Usage == <<0, 0, 5, 0, 0>>

\* the systems the pipeline starts from
SysEmpty == System(EmptyDict, EmptyDict, EmptyDict)
SysOld ==
    System(EmptyDict, EmptyDict,
           Dict(<<<<OldWork, Dir(0, 0, PERMS_GROUP_DIR, Usage, 3, None)>>,
                  <<Lost, Dir(0, 0, PERMS_GROUP_DIR, ZeroBytes, 0, None)>>>>))
SysAlice ==
    System(Dict(<<<<AliceDn, AliceEntry(HPC_ALUMNIS_GID, Some(AliceGecos))>>,
                  <<CarolDn, CarolEntry(1006)>>>>),
           Dict(<<<<GroupDn(HPC_ALUMNIS_GROUP), AlumnisEntry>>,
                  <<UsersDn, UsersEntry(<<>>)>>>>),
           Dict(<<<<AliceHome, Dir(2001, HPC_ALUMNIS_GID, PERMS_USER_HOME, Usage, 7,
                                   Some(QUOTA_HOME_BYTES))>>,
                  <<OldWork, Dir(0, 0, PERMS_GROUP_DIR, Usage, 3, None)>>>>))
SysTeam ==
    System(Dict(<<<<AliceDn, AliceEntry(1000, None)>>,
                  <<BobDn, BobEntry(HPC_ALUMNIS_GID)>>>>),
           Dict(<<<<GroupDn(POSIX_AG_PREFIX \o <<"foo">>), FooEntry(1000)>>,
                  <<GroupDn(HPC_ALUMNIS_GROUP), AlumnisEntry>>>>),
           Dict(<<<<AliceHome, Dir(2001, 1000, PERMS_USER_HOME, Usage, 7, None)>>,
                  <<FooWork, Dir(2001, 1000, PERMS_GROUP_DIR, Usage, 7,
                                 Some(<<1, 0, 0, 0, 0>>))>>>>))
\* a system with measured usage: 2.5 GiB in the home of alice and 5 TiB in a
\* scratch directory named after the group foo; the work directory of the group
\* is searchable by the group (rws where the builder asks for rwS)
FooScratch == BASE_PATH_TIER1 \o <<"/", "scratch", "/", "groups", "/", "foo">>
SysUsage ==
    System(Dict(<<<<AliceDn, AliceEntry(1000, None)>>>>),
           Dict(<<<<GroupDn(POSIX_AG_PREFIX \o <<"foo">>), FooEntry(1000)>>,
                  <<GroupDn(HPC_ALUMNIS_GROUP), AlumnisEntry>>>>),
           Dict(<<<<AliceHome, Dir(2001, 1000, PERMS_USER_HOME, <<0, 2, 512, 0, 0>>, 7, None)>>,
                  <<FooScratch, Dir(2001, 1000, PERMS_GROUP_DIR, <<5, 0, 0, 0, 0>>, 9,
                                    None)>>,
                  <<FooWork, Dir(2001, 1000, <<"d", "r", "w", "x", "r", "w", "s", "-", "-", "-">>,
                                 Usage, 7, Some(<<1, 0, 0, 0, 0>>))>>>>))
Systems == {SysEmpty, SysOld, SysAlice, SysTeam, SysUsage}

\* the registries the pipeline starts from
RegAlice == HpcaccessState(<<AliceUser(None)>>, <<>>, <<>>)
RegTeam ==
    HpcaccessState(<<AliceUser(Some("g1")), BobUser>>,
                   <<FooGroup(Some(1000), Some(FullRequest))>>,
                   <<PrjProject(None, Some(FullRequest))>>)
RegNew ==
    HpcaccessState(<<AliceUser(None), BobUser>>,
                   <<FooGroup(None, Some(FullRequest)), BarGroup(None, Some(NoScratch))>>,
                   <<>>)
RegBare == HpcaccessState(<<AliceUser(None)>>, <<FooGroup(Some(1000), None)>>, <<>>)
\* a registry that already holds a usage figure: 1.0 on tier-1 work of group foo
RegUsed ==
    HpcaccessState(<<AliceUser(Some("g1"))>>,
                   <<[FooGroup(Some(1000), Some(FullRequest)) EXCEPT
                        !.resources_used["tier1_work"] = [whole |-> 1, frac |-> <<0, 0, 0, 0>>]]>>,
                   <<>>)
Registries == {EmptyRegistry, RegAlice, RegTeam, RegNew, RegBare, RegUsed}

AllOps == StateOperation
SettingsChoices ==
    {Settings(d, o, o, o) : d \in BOOLEAN, o \in {AllOps, {CREATE}}}

\* the systems and registries the builder is examined on: the ids of the
\* current state and of the registry records vary
BuildSystems ==
    {SysEmpty, SysAlice, SysTeam,
     System(Dict(<<<<AliceDn, AliceEntry(1005, None)>>, <<CarolDn, CarolEntry(1006)>>>>),
            Dict(<<<<GroupDn(POSIX_AG_PREFIX \o <<"foo">>), FooEntry(1000)>>>>),
            EmptyDict)}
GidChoices == {None, Some(1000), Some(1007)}
BuildRegistries ==
    {HpcaccessState(u, g, p) :
        u \in {<<AliceUser(None)>>, <<AliceUser(Some("g1")), BobUser>>},
        g \in {<<>>}
              \cup {<<FooGroup(a, Some(rr))>> : a \in GidChoices, rr \in {FullRequest, NoScratch}}
              \cup {<<FooGroup(a, Some(FullRequest)), BarGroup(b, Some(FullRequest))>> :
                        a \in GidChoices, b \in GidChoices},
        p \in {<<>>} \cup {<<PrjProject(a, Some(FullRequest))>> : a \in {None, Some(1008)}}}

\* the states the comparator is examined on: every combination of the account,
\* group and directory dicts that gathering or building produces
GatheredStates ==
    {gather_system_state(x.ldap_users, x.ldap_groups, x.fs).state : x \in Systems}
BuiltStates ==
    {build(Builder(r, 1000)).state : r \in {EmptyRegistry, RegAlice, RegTeam, RegNew}}
BaseStates == GatheredStates \cup BuiltStates
CmpStates ==
    {SystemState(a.ldap_users, b.ldap_groups, c.fs_directories) :
        a \in BaseStates, b \in BaseStates, c \in BaseStates}

-----------------------------------------------------------------------------
(* main.py: the commands *)

Idle == pc \in {"idle", "done", "failed"}
Fresh ==
    /\ err' = "none" /\ src_state' = EmptyState /\ next_gid' = 0
    /\ hpcaccess_state' = EmptyRegistry /\ dst_state' = EmptyState
    /\ prev_dst' = EmptyState /\ builds' = 0 /\ operations' = NoOperations /\ idx' = 0
    /\ log' = <<>>
    /\ prev_ops' = IF cmd = "state-sync" /\ pc = "done" /\ ~settings.dry_run
                   THEN operations ELSE NoOperations

\* sync_data is called: the settings of the run
SyncData ==
    /\ Idle
    /\ \E s \in SettingsChoices : settings' = s
    /\ cmd' = "state-sync" /\ pc' = "gather"
    /\ Fresh
    /\ UNCHANGED <<ldap_users, ldap_groups, fs, registry>>

\* sync_storage_usage is called
SyncStorageUsage ==
    /\ Idle
    /\ \E d \in BOOLEAN : settings' = Settings(d, AllOps, AllOps, AllOps)
    /\ cmd' = "storage-usage-sync" /\ pc' = "gather"
    /\ Fresh
    /\ UNCHANGED <<ldap_users, ldap_groups, fs, registry>>

Fail(e) == pc' = "failed" /\ err' = e

\* src_state = gather_system_state(settings)
Gather ==
    /\ pc = "gather"
    /\ LET g == gather_system_state(ldap_users, ldap_groups, fs)
       IN  IF g.ok
           THEN /\ src_state' = g.state
                /\ pc' = IF cmd = "state-sync" THEN "builder" ELSE "fold"
                /\ err' = err
           ELSE Fail(g.err) /\ src_state' = src_state
    /\ UNCHANGED <<ldap_users, ldap_groups, fs, registry, cmd, settings, next_gid,
                   hpcaccess_state, dst_state, prev_dst, builds, operations, prev_ops, idx, log>>

\* dst_builder = TargetStateBuilder(settings.hpc_access, src_state)
NewBuilder ==
    /\ pc = "builder"
    /\ next_gid' = get_next_gid(src_state)
    /\ pc' = "build"
    /\ UNCHANGED <<ldap_users, ldap_groups, fs, registry, cmd, err, settings, src_state,
                   hpcaccess_state, dst_state, prev_dst, builds, operations, prev_ops, idx, log>>

\* dst_builder.run() with the counter at gid: the snapshot is fetched, then built
RunBuilder(gid) ==
    LET r == build(Builder(registry, gid))
    IN  /\ hpcaccess_state' = r.b.state
        /\ next_gid' = r.b.next_gid
        /\ builds' = builds + 1
        /\ prev_dst' = dst_state
        /\ IF r.b.ok
           THEN dst_state' = r.state /\ pc' = "compare" /\ err' = err
           ELSE dst_state' = dst_state /\ Fail(r.b.err)
        /\ UNCHANGED <<ldap_users, ldap_groups, fs, registry, cmd, settings, src_state,
                       operations, prev_ops, idx, log>>

BuilderRun == pc = "build" /\ RunBuilder(next_gid)

MaxBuilds == 2

\* the builder run once more on the same inputs: by the same builder, or by a
\* new one
BuilderRerun ==
    /\ pc = "compare" /\ builds < MaxBuilds
    /\ \E again \in BOOLEAN :
         RunBuilder(IF again THEN next_gid ELSE get_next_gid(src_state))

\* operations = comparison.run()
Compare ==
    /\ pc = "compare"
    /\ LET c == compare(src_state, dst_state)
       IN  IF c.ok
           THEN operations' = c.operations /\ pc' = "groups" /\ err' = err
           ELSE operations' = operations /\ Fail(c.err)
    /\ idx' = 0
    /\ UNCHANGED <<ldap_users, ldap_groups, fs, registry, cmd, settings, src_state,
                   next_gid, hpcaccess_state, dst_state, prev_dst, builds, prev_ops, log>>

\* one iteration of "for group_op in operations.ldap_group_ops"
ApplyGroupOp ==
    /\ pc = "groups" /\ idx < Len(operations.ldap_group_ops)
    /\ \E o \in apply_group_op(ldap_groups, operations.ldap_group_ops[idx + 1],
                               settings.dry_run) :
         /\ ldap_groups' = o.dir /\ log' = log \o o.events
         /\ IF o.ok THEN idx' = idx + 1 /\ pc' = pc /\ err' = err
            ELSE idx' = idx /\ Fail("Exception")
    /\ UNCHANGED <<ldap_users, fs, registry, cmd, settings, src_state, next_gid,
                   hpcaccess_state, dst_state, prev_dst, builds, operations, prev_ops>>

\* the account phase entered whatever is left of the group operations
UserPhase_early ==
    /\ pc = "groups"
    /\ pc' = "users" /\ idx' = 0
    /\ UNCHANGED <<ldap_users, ldap_groups, fs, registry, cmd, err, settings, src_state,
                   next_gid, hpcaccess_state, dst_state, prev_dst, builds, operations,
                   prev_ops, log>>

\* the group operations are through: "applying LDAP user operations now"
UserPhase ==
    /\ pc = "groups" /\ idx = Len(operations.ldap_group_ops)
    /\ pc' = "users" /\ idx' = 0
    /\ UNCHANGED <<ldap_users, ldap_groups, fs, registry, cmd, err, settings, src_state,
                   next_gid, hpcaccess_state, dst_state, prev_dst, builds, operations,
                   prev_ops, log>>

\* one iteration of "for user_op in operations.ldap_user_ops"
ApplyUserOp ==
    /\ pc = "users" /\ idx < Len(operations.ldap_user_ops)
    /\ \E o \in apply_user_op(ldap_users, operations.ldap_user_ops[idx + 1],
                              settings.dry_run) :
         /\ ldap_users' = o.dir /\ log' = log \o o.events
         /\ IF o.ok THEN idx' = idx + 1 /\ pc' = pc /\ err' = err
            ELSE idx' = idx /\ Fail("Exception")
    /\ UNCHANGED <<ldap_groups, fs, registry, cmd, settings, src_state, next_gid,
                   hpcaccess_state, dst_state, prev_dst, builds, operations, prev_ops>>

\* the user operations are through: "applying file system operations now"
FsPhase ==
    /\ pc = "users" /\ idx = Len(operations.ldap_user_ops)
    /\ pc' = "fs" /\ idx' = 0
    /\ UNCHANGED <<ldap_users, ldap_groups, fs, registry, cmd, err, settings, src_state,
                   next_gid, hpcaccess_state, dst_state, prev_dst, builds, operations,
                   prev_ops, log>>

\* one iteration of "for fs_op in operations.fs_ops"
ApplyFsOp ==
    /\ pc = "fs" /\ idx < Len(operations.fs_ops)
    /\ \E o \in FsOutcomes(fs, ldap_users, ldap_groups, operations.fs_ops[idx + 1],
                           settings.dry_run) :
         /\ fs' = o.fs /\ log' = log \o o.events
         /\ IF o.ok THEN idx' = idx + 1 /\ pc' = pc /\ err' = err
            ELSE idx' = idx /\ Fail("CalledProcessError")
    /\ UNCHANGED <<ldap_users, ldap_groups, registry, cmd, settings, src_state, next_gid,
                   hpcaccess_state, dst_state, prev_dst, builds, operations, prev_ops>>

\* sync_data returns
Finish ==
    /\ cmd = "state-sync" /\ pc = "fs" /\ idx = Len(operations.fs_ops)
    /\ pc' = "done"
    /\ UNCHANGED <<ldap_users, ldap_groups, fs, registry, cmd, err, settings, src_state,
                   next_gid, hpcaccess_state, dst_state, prev_dst, builds, operations,
                   prev_ops, idx, log>>

\* sync_storage_usage: the snapshot is fetched and the usage folded into it
Fold ==
    /\ pc = "fold"
    /\ hpcaccess_state' = fold_usage(registry, src_state)
    /\ pc' = "deploy"
    /\ UNCHANGED <<ldap_users, ldap_groups, fs, registry, cmd, err, settings, src_state,
                   next_gid, dst_state, prev_dst, builds, operations, prev_ops, idx, log>>

\* "if not dry_run: deploy_hpcaccess_state(...)": the requests go out one by one,
\* and one that fails (raise_for_status) ends the command
Deploy ==
    /\ pc = "deploy"
    /\ IF settings.dry_run
       THEN registry' = registry /\ pc' = "done" /\ err' = err
       ELSE \E n \in 0..NumRecords(hpcaccess_state) :
              /\ registry' = Deployed(registry, hpcaccess_state, n)
              /\ IF n = NumRecords(hpcaccess_state) THEN pc' = "done" /\ err' = err
                 ELSE Fail("HTTPStatusError")
    /\ UNCHANGED <<ldap_users, ldap_groups, fs, cmd, settings, src_state, next_gid,
                   hpcaccess_state, dst_state, prev_dst, builds, operations, prev_ops, idx, log>>

-----------------------------------------------------------------------------
(* The specifications *)

Blank ==
    /\ err = "none" /\ src_state = EmptyState /\ next_gid = 0
    /\ hpcaccess_state = EmptyRegistry /\ dst_state = EmptyState
    /\ prev_dst = EmptyState /\ builds = 0 /\ operations = NoOperations
    /\ prev_ops = NoOperations /\ idx = 0 /\ log = <<>>

\* the pipeline: any sequence of the two commands
Init ==
    /\ \E x \in Systems :
         ldap_users = x.ldap_users /\ ldap_groups = x.ldap_groups /\ fs = x.fs
    /\ registry \in Registries
    /\ cmd = "none" /\ pc = "idle"
    /\ settings = Settings(TRUE, AllOps, AllOps, AllOps)
    /\ Blank

Next ==
    \/ SyncData \/ Gather \/ NewBuilder \/ BuilderRun \/ Compare
    \/ ApplyGroupOp \/ UserPhase \/ ApplyUserOp \/ FsPhase \/ ApplyFsOp \/ Finish
    \/ SyncStorageUsage \/ Fold \/ Deploy

Spec == Init /\ [][Next]_vars

\* the builder on its own: gather, construct, run (and run again), compare
InitBuild ==
    /\ \E x \in BuildSystems :
         ldap_users = x.ldap_users /\ ldap_groups = x.ldap_groups /\ fs = x.fs
    /\ registry \in BuildRegistries
    /\ cmd = "state-sync" /\ pc = "gather"
    /\ settings = Settings(TRUE, AllOps, AllOps, AllOps)
    /\ Blank

NextBuild == Gather \/ NewBuilder \/ BuilderRun \/ BuilderRerun \/ Compare

SpecBuild == InitBuild /\ [][NextBuild]_vars

\* the comparator on its own, on any pair of states
InitCompare ==
    /\ ldap_users = EmptyDict /\ ldap_groups = EmptyDict /\ fs = EmptyDict
    /\ registry = EmptyRegistry
    /\ cmd = "state-sync" /\ pc = "compare"
    /\ settings = Settings(TRUE, AllOps, AllOps, AllOps)
    /\ err = "none" /\ next_gid = 0 /\ hpcaccess_state = EmptyRegistry
    /\ prev_dst = EmptyState /\ builds = 0 /\ operations = NoOperations
    /\ prev_ops = NoOperations /\ idx = 0 /\ log = <<>>
    /\ src_state \in CmpStates
    /\ dst_state \in CmpStates

NextCompare == Compare

SpecCompare == InitCompare /\ [][NextCompare]_vars

\* the executor on its own (apply_group_op, apply_user_op, apply_fs_op are the
\* public methods of LdapConnection and FsResourceManager): the operations that
\* bring the desired state of a registry to a system, taken in any number
ApplyDesired == build(Builder(RegTeam, 1000)).state
UserCreates ==
    {Op(CREATE, ApplyDesired.ldap_users[k], EmptyDict) : k \in DOMAIN ApplyDesired.ldap_users}
ApplyInputs ==
    {OperationsContainer(u, g, f) :
        u \in {<<>>} \cup {<<a>> : a \in UserCreates}
              \cup {<<a, b>> : a \in UserCreates, b \in UserCreates},
        g \in {<<>>, compare_ldap_groups(EmptyState, ApplyDesired)},
        f \in {<<>>, SubSeq(compare_fs_directories(EmptyState, ApplyDesired), 1, 2)}}
InitApply ==
    /\ \E x \in Systems :
         ldap_users = x.ldap_users /\ ldap_groups = x.ldap_groups /\ fs = x.fs
    /\ registry = RegTeam
    /\ cmd = "state-sync" /\ pc = "groups"
    /\ \E d \in BOOLEAN : settings = Settings(d, AllOps, AllOps, AllOps)
    /\ err = "none" /\ src_state = EmptyState /\ next_gid = 0
    /\ hpcaccess_state = RegTeam /\ dst_state = ApplyDesired
    /\ prev_dst = EmptyState /\ builds = 1 /\ operations \in ApplyInputs
    /\ prev_ops = NoOperations /\ idx = 0 /\ log = <<>>

NextApply == ApplyGroupOp \/ UserPhase \/ ApplyUserOp \/ FsPhase \/ ApplyFsOp \/ Finish

SpecApply == InitApply /\ [][NextApply]_vars

-----------------------------------------------------------------------------
(* The claims *)

Applying == cmd = "state-sync" /\ pc \in {"groups", "users", "fs", "done"}

\* the keys the operations of a list are about
OpKeys(ops, field) == {ops[i].entity[field] : i \in 1..Len(ops)}

\* one DISABLE with the current entity per key only in src, one CREATE with the
\* desired entity per key only in dst, at most one operation per key
Covered(ops, src, dst, field) ==
    /\ \A k \in (DOMAIN src) \ (DOMAIN dst) :
         \E i \in 1..Len(ops) : ops[i].operation = DISABLE /\ ops[i].entity = src[k]
    /\ \A k \in (DOMAIN dst) \ (DOMAIN src) :
         \E i \in 1..Len(ops) : ops[i].operation = CREATE /\ ops[i].entity = dst[k]
    /\ \A i, j \in 1..Len(ops) : ops[i].entity[field] = ops[j].entity[field] => i = j

\* C1 (coverage of the Comparator): for every pair of states the comparison
\* completes without error, and in each entity class every key only in the
\* current state has exactly one DISABLE carrying the current entity, every key
\* only in the desired state exactly one CREATE carrying the desired entity,
\* and no key has more than one operation.
C1_Coverage ==
    pc # "compare" =>
        /\ pc = "groups"
        /\ Covered(operations.ldap_user_ops, src_state.ldap_users, dst_state.ldap_users, "uid")
        /\ Covered(operations.ldap_group_ops, src_state.ldap_groups, dst_state.ldap_groups, "cn")
        /\ Covered(operations.fs_ops, src_state.fs_directories, dst_state.fs_directories,
                   "path")

\* C2 (idempotence of the Comparator): comparing a state with itself returns
\* operations whose account, group and directory lists are all empty.
C2_Idempotence ==
    (pc # "compare" /\ src_state = dst_state) =>
        /\ pc = "groups"
        /\ Len(operations.ldap_user_ops) = 0
        /\ Len(operations.ldap_group_ops) = 0
        /\ Len(operations.fs_ops) = 0

\* a state compared with itself that has accounts, groups and directories
C2_Witness ==
    /\ pc = "groups" /\ src_state = dst_state
    /\ DOMAIN src_state.ldap_users # {} /\ DOMAIN src_state.ldap_groups # {}
    /\ DOMAIN src_state.fs_directories # {}

OpKindsOk(ops) == \A i \in 1..Len(ops) : ops[i].operation \in {CREATE, UPDATE, DISABLE}
KeysKept ==
    /\ (DOMAIN ldap_users) \subseteq (DOMAIN ldap_users')
    /\ {ldap_users[d].uid : d \in DOMAIN ldap_users}
          \subseteq {ldap_users'[d].uid : d \in DOMAIN ldap_users'}
    /\ (DOMAIN ldap_groups) \subseteq (DOMAIN ldap_groups')
    /\ {ldap_groups[d].cn : d \in DOMAIN ldap_groups}
          \subseteq {ldap_groups'[d].cn : d \in DOMAIN ldap_groups'}
    /\ (DOMAIN fs) \subseteq (DOMAIN fs')

\* C3 (no deletion): over any sequence of runs the operations are only CREATE,
\* UPDATE or DISABLE, and no step removes an account, a group or a directory:
\* the keys of the directory service and of the filesystem never shrink.
C3_NoDeletion ==
    /\ [](/\ OpKindsOk(operations.ldap_user_ops)
          /\ OpKindsOk(operations.ldap_group_ops)
          /\ OpKindsOk(operations.fs_ops))
    /\ [][KeysKept]_vars

HasKind(ops, kind) == \E i \in 1..Len(ops) : ops[i].operation = kind

\* a run that was no dry run has applied a DISABLE of an account and of a directory
C3_Witness ==
    /\ cmd = "state-sync" /\ pc = "done" /\ ~settings.dry_run
    /\ HasKind(operations.ldap_user_ops, DISABLE)
    /\ HasKind(operations.fs_ops, DISABLE)

\* C4 (dry run is read-only): no step of a dry run, of state-sync or of
\* storage-usage-sync, changes the directory service, the filesystem or the
\* registry, while the target state and the operations are those derived in full
\* from the current state and the registry.
C4_DryRunReadOnly ==
    /\ [][settings'.dry_run =>
            /\ ldap_users' = ldap_users /\ ldap_groups' = ldap_groups
            /\ fs' = fs /\ registry' = registry]_vars
    /\ []((settings.dry_run /\ Applying) =>
            /\ src_state = gather_system_state(ldap_users, ldap_groups, fs).state
            /\ dst_state = build(Builder(registry, get_next_gid(src_state))).state
            /\ operations = compare(src_state, dst_state).operations)

\* a dry run of state-sync is through account and directory operations
C4_Witness ==
    /\ cmd = "state-sync" /\ pc = "done" /\ settings.dry_run
    /\ Len(operations.ldap_user_ops) > 0 /\ Len(operations.fs_ops) > 0

\* C5 (idempotent convergence across runs): after a state-sync that was no dry
\* run and applied every operation, the next state-sync on the unchanged
\* registry has no operation for an entity the run before operated on.
C5_Convergence ==
    Applying =>
        /\ OpKeys(operations.ldap_user_ops, "uid") \cap OpKeys(prev_ops.ldap_user_ops, "uid") = {}
        /\ OpKeys(operations.ldap_group_ops, "cn") \cap OpKeys(prev_ops.ldap_group_ops, "cn") = {}
        /\ OpKeys(operations.fs_ops, "path") \cap OpKeys(prev_ops.fs_ops, "path") = {}

Built == builds >= 1 /\ pc = "compare"

\* C6 (no identifier collision within one Builder run): no two distinct groups
\* of the desired state have the same numeric group id.
C6_NoCollision ==
    Built =>
        \A k1, k2 \in DOMAIN dst_state.ldap_groups :
            k1 # k2 => dst_state.ldap_groups[k1].gid_number # dst_state.ldap_groups[k2].gid_number

\* C7 (identifiers present in the current state are preserved): a group whose
\* prefixed name exists in the current state has its current numeric id in the
\* desired state.
C7_CurrentIdsPreserved ==
    Built =>
        \A k \in (DOMAIN src_state.ldap_groups) \cap (DOMAIN dst_state.ldap_groups) :
            dst_state.ldap_groups[k].gid_number = src_state.ldap_groups[k].gid_number

\* the numeric group ids found on the current groups and accounts
CurrentIds ==
    {src_state.ldap_groups[k].gid_number : k \in DOMAIN src_state.ldap_groups}
    \cup {Get(src_state.ldap_users[k].gid_number) :
            k \in {u \in DOMAIN src_state.ldap_users : src_state.ldap_users[u].gid_number # None}}
IsSeed(n) ==
    IF CurrentIds = {} THEN n = 1000
    ELSE (n - 1) \in CurrentIds /\ \A i \in CurrentIds : i < n
Carried(gid) == gid # None /\ Get(gid) # 0
\* the ids given to the records that lack one, in the order of processing:
\* groups, then projects
Allocated ==
    LET pick(before, after) ==
            SelectSeq([i \in 1..Len(before) |->
                          IF Carried(before[i].gid) THEN None ELSE after[i].gid],
                      LAMBDA x : x # None)
    IN  pick(registry.hpc_groups, hpcaccess_state.hpc_groups)
        \o pick(registry.hpc_projects, hpcaccess_state.hpc_projects)

\* C8 (id allocation policy): the counter starts one past the largest numeric
\* group id of the current groups and accounts, or at 1000 when there is none;
\* every record lacking an id gets the counter value, and the counter then
\* moves on by one.
C8_AllocationPolicy ==
    /\ pc = "build" => IsSeed(next_gid)
    /\ (builds = 1 /\ pc = "compare") =>
          /\ \A k \in 1..Len(Allocated) :
                IF k = 1 THEN IsSeed(Get(Allocated[k]))
                ELSE Get(Allocated[k]) = Get(Allocated[k - 1]) + 1
          /\ IF Allocated = <<>> THEN IsSeed(next_gid)
             ELSE next_gid = Get(Allocated[Len(Allocated)]) + 1

\* current ids {1000, 1005, 1006} and two new groups: they get 1007 and 1008
C8_Witness ==
    /\ builds = 1 /\ pc = "compare"
    /\ CurrentIds = {1000, 1005, 1006}
    /\ Len(registry.hpc_groups) = 2
    /\ registry.hpc_groups[1].gid = None /\ registry.hpc_groups[2].gid = None
    /\ Allocated = <<Some(1007), Some(1008)>>

NumberedKeep(before, prefix) ==
    \A i \in 1..Len(before) :
        Carried(before[i].gid) =>
            /\ prev_dst.ldap_groups[prefix \o before[i].name].gid_number = Get(before[i].gid)
            /\ dst_state.ldap_groups[prefix \o before[i].name].gid_number = Get(before[i].gid)

\* C9 (identifier stability): two Builder runs on the same current state and
\* registry give every group and project that carried a numeric id that id, the
\* one of its registry record, in both desired states.
C9_Stability ==
    (builds >= 2 /\ pc = "compare") =>
        /\ NumberedKeep(registry.hpc_groups, POSIX_AG_PREFIX)
        /\ NumberedKeep(registry.hpc_projects, POSIX_PROJECT_PREFIX)

\* a second run over a registry with a numbered group, a numbered project and
\* a record still without an id
C9_Witness ==
    /\ builds = 2 /\ pc = "compare"
    /\ \E i \in 1..Len(registry.hpc_groups) : Carried(registry.hpc_groups[i].gid)
    /\ \E i \in 1..Len(registry.hpc_groups) : ~Carried(registry.hpc_groups[i].gid)
    /\ \E i \in 1..Len(registry.hpc_projects) : Carried(registry.hpc_projects[i].gid)

\* C10 (operation selection): an operation whose kind is not in the subset
\* configured for its class changes nothing when its turn comes.
C10_Selection ==
    [][/\ (pc = "groups" /\ idx < Len(operations.ldap_group_ops)
             /\ operations.ldap_group_ops[idx + 1].operation \notin settings.ldap_group_ops)
          => ldap_groups' = ldap_groups
       /\ (pc = "users" /\ idx < Len(operations.ldap_user_ops)
             /\ operations.ldap_user_ops[idx + 1].operation \notin settings.ldap_user_ops)
          => ldap_users' = ldap_users
       /\ (pc = "fs" /\ idx < Len(operations.fs_ops)
             /\ operations.fs_ops[idx + 1].operation \notin settings.fs_ops)
          => fs' = fs]_vars

\* the UPDATE operations of a list for the key k
UpdatesOf(ops, field, k) ==
    {i \in 1..Len(ops) : ops[i].operation = UPDATE /\ ops[i].entity[field] = k}

\* an UPDATE for every common key whose entities differ and for no other, on
\* the current entity, its diff the changed fields with their desired values
MinimalDiffs(ops, src, dst, field) ==
    \A k \in (DOMAIN src) \cap (DOMAIN dst) :
        /\ (UpdatesOf(ops, field, k) # {}) <=> (src[k] # dst[k])
        /\ \A i \in UpdatesOf(ops, field, k) :
             /\ ops[i].entity = src[k]
             /\ DOMAIN ops[i].diff =
                  {f \in (DOMAIN src[k]) \cup (DOMAIN dst[k]) : src[k][f] # dst[k][f]}
             /\ \A f \in DOMAIN ops[i].diff : ops[i].diff[f] = dst[k][f]

MUTABLE_FIELDS == {"owner_uid", "group_gid", "perms", "quota_bytes", "quota_files"}

\* C12 (directory diff allow-list): whenever the comparison returns, the UPDATE
\* of a path present in both states holds a field in its diff iff the field is
\* one of the mutable fields and its current and desired values differ; so a
\* different group id is in the diff, and path, rbytes and rfiles never are.
C12_AllowList ==
    pc = "groups" =>
        \A i \in 1..Len(operations.fs_ops) :
            operations.fs_ops[i].operation = UPDATE =>
                LET p == operations.fs_ops[i].entity.path
                IN  DOMAIN operations.fs_ops[i].diff =
                        {f \in MUTABLE_FIELDS :
                            src_state.fs_directories[p][f] # dst_state.fs_directories[p][f]}

\* C13 (apply ordering): in a state-sync run the account phase begins only when
\* every group operation has been applied and the directory phase only when
\* every account operation has been; no phase is returned to within the run, and
\* the accounts change only in the account phase, the directories only in the
\* directory phase, the groups only in the group phase.
C13_ApplyOrdering ==
    [][/\ (pc' = "users" /\ pc # "users") =>
              pc = "groups" /\ idx = Len(operations.ldap_group_ops)
       /\ (pc' = "fs" /\ pc # "fs") =>
              pc = "users" /\ idx = Len(operations.ldap_user_ops)
       /\ pc = "users" => pc' \in {"users", "fs", "failed"}
       /\ pc = "fs" => pc' \in {"fs", "done", "failed"}
       /\ pc \in {"groups", "users", "fs"} => operations' = operations
       /\ ldap_groups' # ldap_groups => pc = "groups"
       /\ ldap_users' # ldap_users => pc = "users"
       /\ fs' # fs => pc = "fs"]_vars

\* a run that was no dry run is through operations of all three classes
C13_Witness ==
    /\ cmd = "state-sync" /\ pc = "done" /\ ~settings.dry_run
    /\ Len(operations.ldap_group_ops) > 0
    /\ Len(operations.ldap_user_ops) > 0
    /\ Len(operations.fs_ops) > 0
    /\ ldap_users # SysAlice.ldap_users /\ fs # SysAlice.fs /\ registry = RegAlice

\* the account operation whose turn it is
UserOpDue == operations.ldap_user_ops[idx + 1]
DisableDue ==
    /\ cmd = "state-sync" /\ pc = "users" /\ idx < Len(operations.ldap_user_ops)
    /\ UserOpDue.operation = DISABLE
\* the accounts as they are but for the login shell of the account named uid
ShellDisabled(dir, uid) ==
    [dn \in DOMAIN dir |->
        IF dir[dn].uid = Some(uid)
        THEN [dir[dn] EXCEPT !.loginShell = Some(LOGIN_SHELL_DISABLED)] ELSE dir[dn]]

RECURSIVE OnlyLogs(_)
OnlyLogs(events) ==
    IF events = <<>> THEN <<>>
    ELSE (IF Head(events).kind = "log" THEN <<Head(events)>> ELSE <<>>)
         \o OnlyLogs(Tail(events))
AddedToLog == SubSeq(log', Len(log) + 1, Len(log'))

\* what the operation due would do in a run that is not dry
WetOutcomes ==
    IF pc = "groups" /\ idx < Len(operations.ldap_group_ops)
    THEN apply_group_op(ldap_groups, operations.ldap_group_ops[idx + 1], FALSE)
    ELSE IF pc = "users" /\ idx < Len(operations.ldap_user_ops)
    THEN apply_user_op(ldap_users, operations.ldap_user_ops[idx + 1], FALSE)
    ELSE IF pc = "fs" /\ idx < Len(operations.fs_ops)
    THEN FsOutcomes(fs, ldap_users, ldap_groups, operations.fs_ops[idx + 1], FALSE)
    ELSE {}

EveryCallAnnounced ==
    \A j \in 1..Len(log) :
        log[j].kind = "call" => \E i \in 1..(j - 1) : log[i] = Log(log[j].what)

DryStepLogsTheSame ==
    (Applying /\ settings.dry_run /\ idx' = idx + 1)
        => /\ \A k \in 1..Len(AddedToLog) : AddedToLog[k].kind = "log"
           /\ \A o \in WetOutcomes :
                \A k \in 1..Len(o.events) :
                    o.events[k].kind = "call"
                        => \E m \in 1..Len(AddedToLog) : AddedToLog[m] = Log(o.events[k].what)
           /\ \A o \in WetOutcomes : o.ok => OnlyLogs(o.events) = AddedToLog

\* C15 (audit trail): every mutating call the executor issues to the directory
\* service or to the filesystem comes after a log entry of the same run that
\* announces that action; and a dry run issues no call while it writes the log
\* entries that the same operation writes when it is carried out.
C15_AuditTrail ==
    /\ [](EveryCallAnnounced /\ (settings.dry_run => OnlyLogs(log) = log))
    /\ [][DryStepLogsTheSame]_vars

\* a run that was not dry is through, having changed an account and the
\* filesystem, each change announced
C15_Witness ==
    /\ cmd = "state-sync" /\ pc = "done" /\ ~settings.dry_run
    /\ \E j \in 1..Len(log) :
         log[j].kind = "call" /\ log[j].what.cmd = "disable LDAP user"
    /\ \E j \in 1..Len(log) : log[j].kind = "call" /\ log[j].what.cmd = "setfattr -n"

\* ---------------------------------------------------------------------------
\* the builder has run in this command, and the run raised
BuilderRan == cmd = "state-sync" /\ builds > 0
BuilderFailed == BuilderRan /\ pc = "failed" /\ dst_state = EmptyState

\* the groups of the snapshot the builder worked on that have a numeric id
NumberedGroups ==
    {hpcaccess_state.hpc_groups[i] : i \in 1..Len(hpcaccess_state.hpc_groups)}
        \ {g \in {hpcaccess_state.hpc_groups[i] : i \in 1..Len(hpcaccess_state.hpc_groups)} :
              g.gid = None}
GroupPath(base, volume, g) ==
    base \o <<"/", volume, "/", "groups", "/", "ag-">> \o strip_prefix(g.name, POSIX_AG_PREFIX)
Tier1Paths(g) == {GroupPath(BASE_PATH_TIER1, v, g) : v \in {"home", "scratch", "work"}}
Tier2Paths(g) == {GroupPath(BASE_PATH_TIER2, v, g) : v \in {"unmirrored", "mirrored"}}
Tier1Requested(g) ==
    /\ g.resources_requested # None
    /\ Get(g.resources_requested).tier1_work # 0
    /\ Get(g.resources_requested).tier1_scratch # 0
Terabytes(n) == Some(<<n, 0, 0, 0, 0>>)

\* what the desired state holds for the groups, once the builder is through
Tier1DirectoriesRight ==
    \A g \in NumberedGroups :
        IF Tier1Requested(g)
        THEN /\ Tier1Paths(g) \subseteq DOMAIN dst_state.fs_directories
             /\ dst_state.fs_directories[GroupPath(BASE_PATH_TIER1, "work", g)].quota_bytes
                    = Terabytes(Get(g.resources_requested).tier1_work)
             /\ dst_state.fs_directories[GroupPath(BASE_PATH_TIER1, "scratch", g)].quota_bytes
                    = Terabytes(Get(g.resources_requested).tier1_scratch)
             /\ dst_state.fs_directories[GroupPath(BASE_PATH_TIER1, "home", g)].quota_bytes
                    = Some(QUOTA_HOME_BYTES)
        ELSE (Tier1Paths(g) \cup Tier2Paths(g)) \cap DOMAIN dst_state.fs_directories = {}

\* C16 (tier-1 directories and quota conversion): the builder completes, and
\* for every group of the registry with a numeric id the desired state holds
\* the home, scratch and work directory of the group exactly when its requested
\* tier-1 work and scratch quotas are both non-zero, the work and scratch quotas
\* being the request times 1024^4 bytes and the home quota the fixed one; a
\* group without such a request has no directory.
C16_Tier1Directories ==
    BuilderRan => ~BuilderFailed /\ Tier1DirectoriesRight

\* the same without the demand that the builder completes
C16_WhenCompleted ==
    (BuilderRan /\ ~BuilderFailed) => Tier1DirectoriesRight

\* ---------------------------------------------------------------------------
\* the records of the snapshot that receive directories: a numeric id, both
\* tier-1 quotas requested and, for a project, an owning group
Receivers(entity) ==
    IF entity = ENTITY_GROUPS THEN {g \in NumberedGroups : Tier1Requested(g)}
    ELSE {hpcaccess_state.hpc_projects[i] : i \in
             {j \in 1..Len(hpcaccess_state.hpc_projects) :
                 /\ hpcaccess_state.hpc_projects[j].gid # None
                 /\ hpcaccess_state.hpc_projects[j].group # None
                 /\ Tier1Requested(hpcaccess_state.hpc_projects[j])}}

\* the directories of the desired state below base/variant/entity/ that belong
\* to the id of the record
Tier2Dirs(rec, entity, variant) ==
    LET prefix == BASE_PATH_TIER2 \o <<"/", variant, "/">> \o entity \o <<"/">>
    IN  {p \in DOMAIN dst_state.fs_directories :
            /\ Len(p) > Len(prefix) /\ SubSeq(p, 1, Len(prefix)) = prefix
            /\ dst_state.fs_directories[p].group_gid = Get(rec.gid)}
Tier2Request(rec, variant) ==
    IF variant = "mirrored" THEN Get(rec.resources_requested).tier2_mirrored
    ELSE Get(rec.resources_requested).tier2_unmirrored

\* present exactly when requested
Tier2Presence ==
    \A entity \in {ENTITY_GROUPS, ENTITY_PROJECTS}, variant \in {"mirrored", "unmirrored"} :
        \A rec \in Receivers(entity) :
            Tier2Dirs(rec, entity, variant) # {} <=> Tier2Request(rec, variant) # 0

\* C17 (tier-2 directories): once the builder is through, for every group or
\* project that receives directories the desired state holds its mirrored
\* (unmirrored) tier-2 directory exactly when the requested mirrored
\* (unmirrored) quota is non-zero, and the quota of that directory is the
\* request times 1024^4 bytes, as on tier 1.
C17_Tier2Directories ==
    (BuilderRan /\ ~BuilderFailed) =>
        /\ Tier2Presence
        /\ \A entity \in {ENTITY_GROUPS, ENTITY_PROJECTS},
              variant \in {"mirrored", "unmirrored"} :
              \A rec \in Receivers(entity) :
                  \A p \in Tier2Dirs(rec, entity, variant) :
                      dst_state.fs_directories[p].quota_bytes
                          = Terabytes(Tier2Request(rec, variant))

\* what holds instead: the directory is there exactly when requested, and its
\* quota is the number of the request taken as bytes
C17_QuotaAsRequested ==
    (BuilderRan /\ ~BuilderFailed) =>
        /\ Tier2Presence
        /\ \A entity \in {ENTITY_GROUPS, ENTITY_PROJECTS},
              variant \in {"mirrored", "unmirrored"} :
              \A rec \in Receivers(entity) :
                  \A p \in Tier2Dirs(rec, entity, variant) :
                      dst_state.fs_directories[p].quota_bytes
                          = Some(<<0, 0, 0, 0, Tier2Request(rec, variant)>>)

\* ---------------------------------------------------------------------------
\* the usage has been folded into the snapshot
Folded == cmd = "storage-usage-sync" /\ pc \in {"deploy", "done", "failed"}

\* the gathered directories that follow the naming convention and whose name
\* is the name of a record of the snapshot
Resolved ==
    {p \in DOMAIN src_state.fs_directories :
        /\ fs_validation(src_state.fs_directories[p]).ok
        /\ IndexOf(CollOf(hpcaccess_state, fs_validation(src_state.fs_directories[p]).entity),
                   fs_validation(src_state.fs_directories[p]).entity,
                   fs_validation(src_state.fs_directories[p]).name) # 0}
RecordOf(p) ==
    LET v == fs_validation(src_state.fs_directories[p])
    IN  CollOf(hpcaccess_state, v.entity)[IndexOf(CollOf(hpcaccess_state, v.entity),
                                                  v.entity, v.name)]
\* bytes <<TiB, GiB, MiB, KiB, B>> over 2^30 and over 2^40
OverGiB(b) == [whole |-> b[1] * 1024 + b[2], frac |-> <<b[3], b[4], b[5], 0>>]
OverTiB(b) == [whole |-> b[1], frac |-> <<b[2], b[3], b[4], b[5]>>]

\* C18 (usage fold conversion): after the fold of storage-usage-sync, for every
\* current directory that follows the naming convention and resolves to a
\* record of the registry, the entry of that record's resources_used for the
\* tier of the directory is rbytes / 2^30 for a user and rbytes / 2^40 for a
\* group or a project.
C18_FoldConversion ==
    Folded =>
        \A p \in Resolved :
            LET v == fs_validation(src_state.fs_directories[p])
                rbytes == Get(src_state.fs_directories[p].rbytes)
            IN  /\ v.resource \in DOMAIN RecordOf(p).resources_used
                /\ RecordOf(p).resources_used[v.resource]
                       = IF v.entity = ENTITY_USERS THEN OverGiB(rbytes) ELSE OverTiB(rbytes)

\* 5 * 1024^4 bytes in the scratch directory of group foo are folded as 5.0,
\* and 2.5 * 1024^3 bytes in the home of alice as 2.5
C18_Witness ==
    /\ Folded /\ pc = "deploy"
    /\ FooScratch \in Resolved /\ AliceHome \in Resolved
    /\ RecordOf(FooScratch).resources_used["tier1_scratch"]
           = [whole |-> 5, frac |-> <<0, 0, 0, 0>>]
    /\ RecordOf(AliceHome).resources_used["tier1_home"]
           = [whole |-> 2, frac |-> <<512, 0, 0, 0>>]

\* ---------------------------------------------------------------------------
\* the record as the registry holds it (the snapshot keeps the registry's order)
ReadRecordOf(p) ==
    LET v == fs_validation(src_state.fs_directories[p])
    IN  CollOf(registry, v.entity)[IndexOf(CollOf(hpcaccess_state, v.entity),
                                           v.entity, v.name)]
\* the usage fields of the record of p that some directory was folded into
FoldedFields(p) ==
    {fs_validation(src_state.fs_directories[q]).resource :
        q \in {r \in Resolved : RecordOf(r) = RecordOf(p)}}

\* C19 (usage fold frame): once the directories are folded and before anything
\* is pushed, a record that a directory was folded into holds, in every usage
\* field that no directory was folded into, the value read from the registry.
C19_FoldFrame ==
    (cmd = "storage-usage-sync" /\ pc = "deploy") =>
        \A p \in Resolved :
            \A k \in (DOMAIN ReadRecordOf(p).resources_used) \ FoldedFields(p) :
                /\ k \in DOMAIN RecordOf(p).resources_used
                /\ RecordOf(p).resources_used[k] = ReadRecordOf(p).resources_used[k]

\* the part of it that holds: the record differs from the one read in nothing
\* but resources_used
C19_OtherFieldsKept ==
    (cmd = "storage-usage-sync" /\ pc = "deploy") =>
        \A p \in Resolved :
            [RecordOf(p) EXCEPT !.resources_used = EmptyDict]
                = [ReadRecordOf(p) EXCEPT !.resources_used = EmptyDict]

\* ---------------------------------------------------------------------------
\* the gathered directories the fold has to skip: the path does not follow the
\* naming convention, or no record of the registry has the name
Skipped == (DOMAIN src_state.fs_directories) \ Resolved

\* the usage fields of record i of an entity class that a directory resolves to
FieldsFoldedInto(entity, i) ==
    {fs_validation(src_state.fs_directories[q]).resource :
        q \in {r \in Resolved :
                 /\ fs_validation(src_state.fs_directories[r]).entity = entity
                 /\ IndexOf(CollOf(hpcaccess_state, entity), entity,
                            fs_validation(src_state.fs_directories[r]).name) = i}}

GroupOpDue == operations.ldap_group_ops[idx + 1]
AppliedForReal == cmd = "state-sync" /\ ~settings.dry_run /\ idx' = idx + 1

\* C21 (CREATE is realized): once a CREATE operation for a group (an account)
\* has been applied in a run that is not dry, the directory service holds an
\* entry under the distinguished name of the entity with its defining
\* attributes: name and numeric id of the group; login name, numeric user id,
\* primary group id, home path and login shell of the account.
C21_CreateRealized ==
    [][/\ (AppliedForReal /\ pc = "groups" /\ idx < Len(operations.ldap_group_ops)
              /\ GroupOpDue.operation = CREATE)
            => /\ GroupOpDue.entity.dn \in DOMAIN ldap_groups'
               /\ ldap_groups'[GroupOpDue.entity.dn].cn = Some(GroupOpDue.entity.cn)
               /\ ldap_groups'[GroupOpDue.entity.dn].gidNumber
                      = Some(GroupOpDue.entity.gid_number)
       /\ (AppliedForReal /\ pc = "users" /\ idx < Len(operations.ldap_user_ops)
              /\ UserOpDue.operation = CREATE)
            => /\ UserOpDue.entity.dn \in DOMAIN ldap_users'
               /\ ldap_users'[UserOpDue.entity.dn].uid = Some(UserOpDue.entity.uid)
               /\ ldap_users'[UserOpDue.entity.dn].uidNumber
                      = Some(UserOpDue.entity.uid_number)
               /\ ldap_users'[UserOpDue.entity.dn].gidNumber = UserOpDue.entity.gid_number
               /\ ldap_users'[UserOpDue.entity.dn].homeDirectory
                      = Some(UserOpDue.entity.home_directory)
               /\ ldap_users'[UserOpDue.entity.dn].loginShell
                      = Some(UserOpDue.entity.login_shell)
      ]_vars

\* ---------------------------------------------------------------------------
\* the directory operation due, and its directory as the gatherer reads it
FsOpDue == operations.fs_ops[idx + 1]
ReadBack(dirs, path) == from_path(ldap_users, ldap_groups, path, dirs[path])
Readable(dirs, path) == path \in DOMAIN dirs /\ ReadBack(dirs, path).ok
FsUpdateApplied ==
    /\ AppliedForReal /\ pc = "fs" /\ idx < Len(operations.fs_ops)
    /\ FsOpDue.operation = UPDATE
    /\ Readable(fs, FsOpDue.entity.path) /\ Readable(fs', FsOpDue.entity.path)
\* the fields of a directory that a diff may name, and the name that goes with an id
FS_FIELDS ==
    {"path", "owner_name", "owner_uid", "group_name", "group_gid", "perms", "rbytes",
     "rfiles", "quota_bytes", "quota_files"}
NamedBy(diff) ==
    (DOMAIN diff) \cup (IF "owner_uid" \in DOMAIN diff THEN {"owner_name"} ELSE {})
                  \cup (IF "group_gid" \in DOMAIN diff THEN {"group_name"} ELSE {})

\* the fields the diff names hold the values of the diff
DiffTaken(keys) ==
    FsUpdateApplied =>
        \A k \in (DOMAIN FsOpDue.diff) \cap keys :
            ReadBack(fs', FsOpDue.entity.path).directory[k] = FsOpDue.diff[k]
\* the fields the diff does not name are as before
RestKept ==
    FsUpdateApplied =>
        \A k \in FS_FIELDS \ NamedBy(FsOpDue.diff) :
            ReadBack(fs', FsOpDue.entity.path).directory[k]
                = ReadBack(fs, FsOpDue.entity.path).directory[k]

\* C22 (UPDATE applies exactly the diff): once a directory UPDATE has been
\* applied in a run that is not dry, every field the diff names holds the value
\* the diff gives (the permissions are the desired ones, a nil quota means no
\* quota attribute), and every field the diff does not name is as it was.
C22_UpdateAppliesDiff == [][DiffTaken(FS_FIELDS) /\ RestKept]_vars

\* what holds of it: the owner is the one of the diff, the rest is kept
C22_OwnerTaken == [][DiffTaken({"owner_uid"}) /\ RestKept]_vars

\* ---------------------------------------------------------------------------
FsDisableApplied ==
    /\ AppliedForReal /\ pc = "fs" /\ idx < Len(operations.fs_ops)
    /\ FsOpDue.operation = DISABLE
    /\ Readable(fs, FsOpDue.entity.path)
\* disabling leaves the directory in place with its byte quota, permissions and
\* ownership
DisableKeepsRest ==
    FsDisableApplied =>
        /\ Readable(fs', FsOpDue.entity.path)
        /\ \A k \in {"quota_bytes", "perms", "owner_name", "owner_uid", "group_name",
                     "group_gid"} :
               ReadBack(fs', FsOpDue.entity.path).directory[k]
                   = ReadBack(fs, FsOpDue.entity.path).directory[k]

\* C23 (directory disable): once a DISABLE operation on a directory has been
\* applied in a run that is not dry, the file-count quota of the directory, as
\* the gatherer reads it back, is zero, and the directory is still there with
\* the byte quota, the permissions and the ownership it had.
C23_DirectoryDisable ==
    [][DisableKeepsRest
       /\ (FsDisableApplied
             => ReadBack(fs', FsOpDue.entity.path).directory.quota_files = Some(0))]_vars

\* what holds of it: everything but the file-count quota
C23_RestKept == [][DisableKeepsRest]_vars

\* ---------------------------------------------------------------------------
\* the names a diff may use that reach something: the attributes of an entry
\* of the directory service, the keys _fs_op_update has a branch for
GROUP_ATTRIBUTES == {"cn", "gidNumber", "description", "ownerDN", "delegateDNs", "memberUid"}
USER_ATTRIBUTES ==
    {"cn", "uid", "sn", "givenName", "uidNumber", "gidNumber", "homeDirectory",
     "loginShell", "mail", "gecos", "sshPublicKey"}
FS_HANDLED ==
    {"quota_bytes", "quota_files", "owner_name", "owner_uid", "group_name", "group_gid",
     "perms"}
UnknownGroupUpdateDue ==
    /\ cmd = "state-sync" /\ pc = "groups" /\ idx < Len(operations.ldap_group_ops)
    /\ GroupOpDue.operation = UPDATE
    /\ \E k \in DOMAIN GroupOpDue.diff : k \notin GROUP_ATTRIBUTES
UnknownUserUpdateDue ==
    /\ cmd = "state-sync" /\ pc = "users" /\ idx < Len(operations.ldap_user_ops)
    /\ UserOpDue.operation = UPDATE
    /\ \E k \in DOMAIN UserOpDue.diff : Camelize(k) \notin USER_ATTRIBUTES
UnknownFsUpdateDue ==
    /\ cmd = "state-sync" /\ pc = "fs" /\ idx < Len(operations.fs_ops)
    /\ FsOpDue.operation = UPDATE
    /\ \E k \in DOMAIN FsOpDue.diff : k \notin FS_HANDLED

\* C24 (unknown diff fields are fatal): applying an UPDATE operation for an
\* account, a group or a directory whose diff names a field the executor has
\* nothing to write to ends the run with an error.
C24_UnknownFieldFatal ==
    [][(UnknownGroupUpdateDue \/ UnknownUserUpdateDue \/ UnknownFsUpdateDue)
          => pc' = "failed"]_vars

-----------------------------------------------------------------------------
(* C25: a failed write ends the run *)

\* a CREATE of an account that the directory service does not hold is applied
\* for real: connection.add is called
CreateIssued ==
    /\ cmd = "state-sync" /\ pc = "users" /\ idx < Len(operations.ldap_user_ops)
    /\ ~settings.dry_run
    /\ UserOpDue.operation = CREATE
    /\ UserOpDue.entity.dn \notin DOMAIN ldap_users
    /\ log' = log \o <<Log(LdapAdd(UserOpDue.entity.dn)), Call(LdapAdd(UserOpDue.entity.dn))>>

\* C25: a write to the directory service or the filesystem that fails ends the
\* run with an error and no later operation is applied.  For the creation of
\* an account: when connection.add has been called and the entry is not in the
\* directory service afterwards, the run has failed.
C25_WriteFailureFatal ==
    [][CreateIssued /\ UserOpDue.entity.dn \notin DOMAIN ldap_users' => pc' = "failed"]_vars

-----------------------------------------------------------------------------
(* C26: the builder leaves the registry records alone *)

\* the records of the snapshot the builder holds after the build, next to the
\* records as they were fetched
SameRecords(after, before) ==
    /\ Len(after) = Len(before)
    /\ \A i \in 1..Len(before) : after[i] = before[i]

\* C26: after the builder has built the desired state, every user, group and
\* project record of the snapshot has the field values it was fetched with.
C26_SnapshotReadOnly ==
    Built =>
        /\ SameRecords(hpcaccess_state.hpc_users, registry.hpc_users)
        /\ SameRecords(hpcaccess_state.hpc_groups, registry.hpc_groups)
        /\ SameRecords(hpcaccess_state.hpc_projects, registry.hpc_projects)

\* what holds of it: the user records, and every field but gid of the others
C26_OnlyGidWritten ==
    Built =>
        /\ SameRecords(hpcaccess_state.hpc_users, registry.hpc_users)
        /\ SameRecords([i \in 1..Len(hpcaccess_state.hpc_groups) |->
                            [hpcaccess_state.hpc_groups[i] EXCEPT !.gid = None]],
                       [i \in 1..Len(registry.hpc_groups) |->
                            [registry.hpc_groups[i] EXCEPT !.gid = None]])
        /\ SameRecords([i \in 1..Len(hpcaccess_state.hpc_projects) |->
                            [hpcaccess_state.hpc_projects[i] EXCEPT !.gid = None]],
                       [i \in 1..Len(registry.hpc_projects) |->
                            [registry.hpc_projects[i] EXCEPT !.gid = None]])

-----------------------------------------------------------------------------
(* C27: the directories of a project carry the name of the project *)

ProjectPath(base, volume, p) ==
    base \o <<"/", volume, "/", "projects", "/">> \o strip_prefix(p.name, POSIX_PROJECT_PREFIX)
\* the directories of the desired state that lie under "projects"
ProjectDirectories ==
    {d \in DOMAIN dst_state.fs_directories : \E j \in 1..Len(d) : d[j] = "projects"}
ProjectPaths(p) ==
    {ProjectPath(BASE_PATH_TIER1, v, p) : v \in {"home", "scratch", "work"}}
        \cup {ProjectPath(BASE_PATH_TIER2, v, p) : v \in {"unmirrored", "mirrored"}}

\* C27: once the builder is through, every project of the registry with a
\* tier-1 request has its home, scratch and work directory under its own name,
\* with that name as the group name, and every directory under "projects" is
\* the directory of a project of the registry, at the path made of its name.
C27_ProjectDirectoryNames ==
    Built =>
        /\ \A i \in 1..Len(hpcaccess_state.hpc_projects) :
              LET p == hpcaccess_state.hpc_projects[i]
              IN  Tier1Requested(p) =>
                     \A v \in {"home", "scratch", "work"} :
                        /\ ProjectPath(BASE_PATH_TIER1, v, p) \in DOMAIN dst_state.fs_directories
                        /\ dst_state.fs_directories[ProjectPath(BASE_PATH_TIER1, v, p)].group_name
                               = strip_prefix(p.name, POSIX_PROJECT_PREFIX)
        /\ \A d \in ProjectDirectories :
              \E i \in 1..Len(hpcaccess_state.hpc_projects) :
                 d \in ProjectPaths(hpcaccess_state.hpc_projects[i])

\* what holds of it: the directories under "projects" carry the id of a project
C27_ProjectIds ==
    Built =>
        \A d \in ProjectDirectories :
           \E i \in 1..Len(hpcaccess_state.hpc_projects) :
              Some(dst_state.fs_directories[d].group_gid) = hpcaccess_state.hpc_projects[i].gid

-----------------------------------------------------------------------------
(* C28: the paths of the builder under fs_validation *)

\* the directory is accepted and names a record of the snapshot of its kind
ResolvesToRecord(directory) ==
    /\ fs_validation(directory).ok
    /\ IndexOf(CollOf(hpcaccess_state, fs_validation(directory).entity),
               fs_validation(directory).entity, fs_validation(directory).name) # 0
HomeDirectories ==
    {d \in DOMAIN dst_state.fs_directories : \E j \in 1..Len(d) : d[j] = "users"}
\* the work, scratch, mirrored and unmirrored directories of groups and projects
VolumeDirectories ==
    {d \in DOMAIN dst_state.fs_directories :
        /\ \E j \in 1..Len(d) : d[j] \in {"groups", "projects"}
        /\ \E j \in 1..Len(d) : d[j] \in {"work", "scratch", "mirrored", "unmirrored"}}

\* C28: once the builder is through, every home directory of a user and every
\* work, scratch, mirrored or unmirrored directory of a group or project in
\* the desired state is accepted by fs_validation and resolves to the kind and
\* the name of a record of the registry.
C28_PathRoundTrip ==
    Built => \A d \in HomeDirectories \cup VolumeDirectories :
                ResolvesToRecord(dst_state.fs_directories[d])

\* what holds of it: the home directories of the users
C28_UserHomes ==
    Built => \A d \in HomeDirectories : ResolvesToRecord(dst_state.fs_directories[d])

-----------------------------------------------------------------------------
(* C29: the members of hpc-users *)

\* the accounts of the desired state that are active: a primary group other
\* than hpc-alumnis and a login shell other than the disabled one
ActiveUids ==
    {dst_state.ldap_users[k].uid : k \in
        {k \in DOMAIN dst_state.ldap_users :
            /\ dst_state.ldap_users[k].gid_number # Some(HPC_ALUMNIS_GID)
            /\ dst_state.ldap_users[k].login_shell # LOGIN_SHELL_DISABLED}}
UsersGroup == dst_state.ldap_groups[<<"hpc-users">>]
NoPrimaryGroup ==
    {hpcaccess_state.hpc_users[i].username : i \in
        {i \in 1..Len(hpcaccess_state.hpc_users) :
            hpcaccess_state.hpc_users[i].primary_group = None}}

\* C29: once the builder is through, the desired state holds the group
\* hpc-users; its members are, each once, the login names of the desired
\* accounts whose primary group id is not that of hpc-alumnis and whose login
\* shell is not the disabled one; the account of a registry user without a
\* primary group has the id of hpc-alumnis and is not a member.
C29_ActiveUsersGroup ==
    Built =>
        /\ <<"hpc-users">> \in DOMAIN dst_state.ldap_groups
        /\ UsersGroup.gid_number = HPC_USERS_GID
        /\ Range(UsersGroup.member_uids) = ActiveUids
        /\ Len(UsersGroup.member_uids) = Cardinality(ActiveUids)
        /\ \A name \in NoPrimaryGroup :
              /\ dst_state.ldap_users[name].gid_number = Some(HPC_ALUMNIS_GID)
              /\ name \notin Range(UsersGroup.member_uids)

\* a desired state with a member of hpc-users and an account that is none
C29_Witness ==
    /\ Built
    /\ UsersGroup.member_uids # <<>>
    /\ NoPrimaryGroup # {}

-----------------------------------------------------------------------------
(* C30: no UPDATE without a difference to apply *)

UpdatesCarryDiff(ops) ==
    \A i \in 1..Len(ops) : ops[i].operation = UPDATE => DOMAIN ops[i].diff # {}

\* C30: whenever the comparison returns, every UPDATE among the account, group
\* and directory operations has a diff that is not empty.
C30_NonEmptyDiff ==
    (cmd = "state-sync" /\ pc = "groups") =>
        /\ UpdatesCarryDiff(operations.ldap_user_ops)
        /\ UpdatesCarryDiff(operations.ldap_group_ops)
        /\ UpdatesCarryDiff(operations.fs_ops)

\* what holds of it: accounts and groups
C30_AccountsAndGroups ==
    (cmd = "state-sync" /\ pc = "groups") =>
        /\ UpdatesCarryDiff(operations.ldap_user_ops)
        /\ UpdatesCarryDiff(operations.ldap_group_ops)

=============================================================================
